---- MODULE Spec2Model ----
(***************************************************************************)
(* A model of the definition-compilation and request-reconstruction engine *)
(* of openapi-mcp-bridge: tool naming, parameter flattening, the combined  *)
(* cache hash, the enrichment cache and executeTool.                        *)
(*                                                                         *)
(* Strings the code takes apart (path templates, URLs, argument values)    *)
(* are sequences of one-character strings; strings the code only compares  *)
(* (tool names, field names, object keys) are TLA+ strings.                *)
(***************************************************************************)
EXTENDS Integers, Sequences, FiniteSets, TLC

VARIABLES
    nmOp,        \* SpecName: the ParsedPath handed to generateToolName
    nmName,      \* SpecName: the name it returned (NoResult before the call)
    hsIn,        \* SpecHash: two (parsed, customization) inputs of generateCombinedHash
    hsOut,       \* SpecHash: the two hashes (empty before the calls)
    rqIn,        \* SpecReq: an operation, its predefined parameters and the arguments
    rqOut,       \* SpecReq: the compiled tool and the request built (empty before)
    definitionFile,     \* Spec: the OpenAPI file of the definitions directory, parsed
    customFile,         \* Spec: the customization loaded from its .custom.yaml
    config,             \* Spec: the LibraryConfig of the service
    cacheFiles,         \* Spec: the enriched definitions in the cache directory
    loadedDefinitions,  \* Spec: MCPProxyService.loadedDefinitions
    lastEnrich,         \* Spec: the inputs of the latest enrichDefinition call
    lastCall,           \* Spec: the latest getAvailableTools / executeTool call
    edits,              \* Spec: how many times the directory was edited
    auIn,        \* SpecAuth: a request, an authentication and default credentials
    auOut,       \* SpecAuth: what the handler made of them (empty before)
    ldDir,       \* SpecLoad: the files of the definitions directory
    ldConfig,    \* SpecLoad: the LibraryConfig of the service
    ldCache,     \* SpecLoad: the cache directory, its state and its files
    ldService,   \* SpecLoad: loadedDefinitions and what the latest load did
    ldClock,     \* SpecLoad: the time of the latest call
    ldCalls,     \* SpecLoad: how many calls were made and how many cache edits
    ldFirst,     \* SpecLoad: what each file's first load stored
    ldLast,      \* SpecLoad: the latest call and what it returned
    ccLoaded,    \* SpecConc: MCPProxyService.loadedDefinitions
    ccCallers,   \* SpecConc: where each caller's call is, and its result
    ccCalls,     \* SpecConc: how many calls were started
    clArgs,      \* SpecCli: the arguments of the command line
    clEnv,       \* SpecCli: the environment the command was started in
    clServer,    \* SpecCli: the server process, its environment and its config
    clDisk,      \* SpecCli: the cache directories of the file system
    clLast,      \* SpecCli: the calls made and what the latest one did
    scIn,        \* SpecSchema: a parameter with its OpenAPI schema
    scOut,       \* SpecSchema: the property addParameterToSchema made of it
    ppIn,        \* SpecParam: the parameters a path item and an operation declare
    ppOut,       \* SpecParam: the ParsedPath's parameters and the input schema
    ovIn,        \* SpecOverride: a customization with authenticationOverrides
    ovOut        \* SpecOverride: the tools compiled with it

nameVars == <<nmOp, nmName>>
hashVars == <<hsIn, hsOut>>
reqVars == <<rqIn, rqOut>>
diskVars == <<definitionFile, customFile, edits>>
serviceVars == <<cacheFiles, loadedDefinitions, lastEnrich>>
mainVars == <<definitionFile, customFile, config, cacheFiles, loadedDefinitions,
              lastEnrich, lastCall, edits>>
authVars == <<auIn, auOut>>
loadVars == <<ldDir, ldConfig, ldCache, ldService, ldClock, ldCalls, ldFirst, ldLast>>
concVars == <<ccLoaded, ccCallers, ccCalls>>
cliVars == <<clArgs, clEnv, clServer, clDisk, clLast>>
schemaVars == <<scIn, scOut>>
paramVars == <<ppIn, ppOut>>
overrideVars == <<ovIn, ovOut>>
moreVars == <<cliVars, schemaVars, paramVars, overrideVars>>
extraVars == <<authVars, loadVars, concVars, moreVars>>
vars == <<nmOp, nmName, hsIn, hsOut, rqIn, rqOut, mainVars, extraVars>>

(***************************************************************************)
(* Bounds of the model.                                                    *)
(***************************************************************************)
MaxPathLen == 4
MaxParams == 2
MaxEdits == 1
MaxClock == 2
MaxLoads == 2
MaxCacheEdits == 1
MaxConcCalls == 3
MaxArgs == 3
MaxCliCalls == 2
MaxSchemaDepth == 2
MaxDeclared == 1
MaxOverrides == 2
MaxDirEdits == 2

NoResult == "<none>"
NoOutput == [absent |-> "output"]
NoOperationId == "<no operationId>"

(***************************************************************************)
(* Characters and the string primitives of JavaScript the code relies on.  *)
(***************************************************************************)
LowerChars == <<"a","b","c","d","e","f","g","h","i","j","k","l","m",
                "n","o","p","q","r","s","t","u","v","w","x","y","z">>
UpperChars == <<"A","B","C","D","E","F","G","H","I","J","K","L","M",
                "N","O","P","Q","R","S","T","U","V","W","X","Y","Z">>
DigitChars == <<"0","1","2","3","4","5","6","7","8","9">>

Range(s) == {s[i] : i \in 1..Len(s)}

IndexIn(c, s) == IF c \in Range(s) THEN CHOOSE i \in 1..Len(s) : s[i] = c ELSE 0

\* String.prototype.toLowerCase, one character at a time
LowerChar(c) == IF IndexIn(c, UpperChars) > 0 THEN LowerChars[IndexIn(c, UpperChars)] ELSE c

toLowerCase(s) == [i \in 1..Len(s) |-> LowerChar(s[i])]

IsAlnumChar(c) == c \in Range(LowerChars) \cup Range(UpperChars) \cup Range(DigitChars)

IsLowerAlnumChar(c) == c \in Range(LowerChars) \cup Range(DigitChars)

\* the characters of s joined into one string
RECURSIVE Join(_)
Join(s) == IF s = <<>> THEN "" ELSE Head(s) \o Join(Tail(s))

\* the first index at which sub occurs in s, 0 when it does not occur
IndexOfSub(sub, s) ==
    LET hits == {i \in 1..(Len(s) - Len(sub) + 1) : SubSeq(s, i, i + Len(sub) - 1) = sub}
    IN IF hits = {} THEN 0 ELSE CHOOSE i \in hits : \A j \in hits : i <= j

\* String.prototype.replace with a string pattern: the first occurrence only
ReplaceFirst(s, sub, rep) ==
    LET i == IndexOfSub(sub, s)
    IN IF i = 0 THEN s
       ELSE SubSeq(s, 1, i - 1) \o rep \o SubSeq(s, i + Len(sub), Len(s))

\* s.replace(/^c+/, '')
RECURSIVE TrimLeft(_, _)
TrimLeft(s, c) == IF s # <<>> /\ Head(s) = c THEN TrimLeft(Tail(s), c) ELSE s

\* s.replace(/c+$/, '')
RECURSIVE TrimRight(_, _)
TrimRight(s, c) ==
    IF s # <<>> /\ s[Len(s)] = c THEN TrimRight(SubSeq(s, 1, Len(s) - 1), c) ELSE s

\* s.replace(/c+/g, r): every run of c becomes one r
RECURSIVE CollapseRuns(_, _, _)
CollapseRuns(s, c, r) ==
    IF s = <<>> THEN <<>>
    ELSE IF Head(s) = c THEN <<r>> \o CollapseRuns(TrimLeft(s, c), c, r)
    ELSE <<Head(s)>> \o CollapseRuns(Tail(s), c, r)

(***************************************************************************)
(* ToolNameGenerator (src/src/generators/tool-name-generator.ts)           *)
(***************************************************************************)
\* the end index of the match of /\{([^}]+)\}/ that starts at i, 0 when none does
MatchEndAt(path, i) ==
    IF path[i] # "{" THEN 0
    ELSE LET closes == {j \in (i + 1)..Len(path) : path[j] = "}"}
         IN IF closes = {} THEN 0
            ELSE LET j == CHOOSE k \in closes : \A l \in closes : k <= l
                 IN IF j >= i + 2 THEN j ELSE 0

\* paramRegex.exec(path) from lastIndex: the start of the leftmost match, 0 when none
NextMatchFrom(path, from) ==
    LET starts == {i \in from..Len(path) : MatchEndAt(path, i) > 0}
    IN IF starts = {} THEN 0 ELSE CHOOSE i \in starts : \A k \in starts : i <= k

\* the while loop of extractPathParts: collects the parameter names and removes
\* each matched placeholder from the static path
RECURSIVE ExtractLoop(_, _, _, _)
ExtractLoop(path, from, staticPath, pathParams) ==
    LET i == NextMatchFrom(path, from)
    IN IF i = 0 THEN [staticPath |-> staticPath, pathParams |-> pathParams]
       ELSE LET j == MatchEndAt(path, i)
            IN ExtractLoop(path, j + 1,
                           ReplaceFirst(staticPath, SubSeq(path, i, j), <<>>),
                           Append(pathParams, SubSeq(path, i + 1, j - 1)))

extractPathParts(path) ==
    LET loop == ExtractLoop(path, 1, path, <<>>)
        s1 == TrimLeft(loop.staticPath, "/")
        s2 == TrimRight(s1, "/")
        s3 == CollapseRuns(s2, "/", "-")
        s4 == SelectSeq(s3, LAMBDA c : IsAlnumChar(c) \/ c = "-")
        s5 == CollapseRuns(s4, "-", "-")
        s6 == TrimRight(TrimLeft(s5, "-"), "-")
    IN [staticPath |-> s6, pathParams |-> loop.pathParams]

sanitizeToolName(name) ==
    LET n1 == toLowerCase(name)
        n2 == SelectSeq(n1, LAMBDA c : IsLowerAlnumChar(c) \/ c = "-")
        n3 == CollapseRuns(n2, "-", "-")
    IN TrimRight(TrimLeft(n3, "-"), "-")

\* pathParams.map(param => `by-${param}`).join('-')
RECURSIVE ParamSuffix(_)
ParamSuffix(pathParams) ==
    IF pathParams = <<>> THEN <<>>
    ELSE <<"b", "y", "-">> \o Head(pathParams)
         \o (IF Len(pathParams) > 1 THEN <<"-">> ELSE <<>>)
         \o ParamSuffix(Tail(pathParams))

\* the method+path name before sanitizing (lines 13-26 and 86-97)
RawToolName(parsedPath) ==
    LET method == toLowerCase(parsedPath.method)
        pathParts == extractPathParts(parsedPath.path)
    IN IF Len(pathParts.pathParams) > 0
       THEN method \o <<"-">> \o pathParts.staticPath \o <<"-">>
            \o ParamSuffix(pathParts.pathParams)
       ELSE method \o <<"-">> \o pathParts.staticPath

\* toolAliases is a function from original names to aliases; an empty alias is
\* falsy and leaves the name as it is
applyAlias(toolAliases, toolName) ==
    IF toolName \in DOMAIN toolAliases /\ toolAliases[toolName] # ""
    THEN toolAliases[toolName]
    ELSE toolName

getOriginalToolName(parsedPath) ==
    IF parsedPath.operationId # NoOperationId /\ parsedPath.operationId # ""
    THEN parsedPath.operationId
    ELSE Join(sanitizeToolName(RawToolName(parsedPath)))

generateToolName(toolAliases, parsedPath) ==
    IF parsedPath.operationId # NoOperationId /\ parsedPath.operationId # ""
    THEN applyAlias(toolAliases, parsedPath.operationId)
    ELSE applyAlias(toolAliases, Join(sanitizeToolName(RawToolName(parsedPath))))

(***************************************************************************)
(* JSON values. A JavaScript object is the sequence of its <<key, value>>  *)
(* entries in insertion order, so that key order is something the model    *)
(* can tell apart.                                                         *)
(***************************************************************************)
Obj(entries) == <<"obj", entries>>
Arr(items) == <<"arr", items>>
Str(s) == <<"str", s>>
Num(n) == <<"num", n>>

IsObj(v) == v[1] = "obj"
IsArr(v) == v[1] = "arr"

\* Object.keys(o)
Keys(o) == [i \in 1..Len(o[2]) |-> o[2][i][1]]

HasKey(o, k) == k \in Range(Keys(o))

\* o[k] of an object that has k
Get(o, k) == o[2][IndexIn(k, Keys(o))][2]

\* every key the model uses, in the order of Array.prototype.sort (UTF-16 code units)
SortedKeyUniverse ==
    <<"*", "authenticationOverrides", "createEvent", "credentials", "endpoint",
      "endpoints", "getMuseumHours", "global", "key", "limit", "page", "password",
      "predefinedParameters", "token", "toolAliases", "username">>

\* keys.sort()
SortKeys(keys) == SelectSeq(SortedKeyUniverse, LAMBDA k : k \in Range(keys))

\* JSON.stringify(value, propertyList): with an array as replacer, an object at
\* ANY depth is serialized with the properties named in the list only, in the
\* list's order; arrays keep every element. The result stands for the text.
RECURSIVE Stringify(_, _)
Stringify(v, propertyList) ==
    IF IsObj(v)
    THEN LET present == SelectSeq(propertyList, LAMBDA k : HasKey(v, k))
         IN Obj([i \in 1..Len(present) |->
                    <<present[i], Stringify(Get(v, present[i]), propertyList)>>])
    ELSE IF IsArr(v)
    THEN Arr([i \in 1..Len(v[2]) |-> Stringify(v[2][i], propertyList)])
    ELSE v

(***************************************************************************)
(* DefinitionEnricher.generateCombinedHash (src/unnamed/part_007).         *)
(* SHA-256 of the text is modelled as the text itself (no collisions).     *)
(***************************************************************************)
generateCombinedHash(parsed, customization) ==
    <<parsed.hash, Stringify(customization, SortKeys(Keys(customization)))>>

(***************************************************************************)
(* JavaScript values of tool arguments and requests. An argument object is *)
(* a function from field names to values; a string value carries its       *)
(* characters.                                                             *)
(***************************************************************************)
Undefined == <<"undefined">>
Null == <<"null">>
Rec(f) == <<"rec", f>>

EmptyObject == [k \in {} |-> Undefined]

\* obj[k]: undefined for a key the object does not have
Lookup(obj, k) == IF k \in DOMAIN obj THEN obj[k] ELSE Undefined

\* { ...a, ...b }: b's entries win
Spread(a, b) == [k \in DOMAIN a \cup DOMAIN b |-> IF k \in DOMAIN b THEN b[k] ELSE a[k]]

\* the object of an ordered-entries JSON object
ObjToFun(o) == [k \in Range(Keys(o)) |-> Get(o, k)]

RECURSIVE DigitsOf(_)
DigitsOf(n) ==
    IF n < 10 THEN <<DigitChars[n + 1]>>
    ELSE DigitsOf(n \div 10) \o <<DigitChars[(n % 10) + 1]>>

\* String(value)
JsString(v) ==
    IF v[1] = "str" THEN v[2]
    ELSE IF v[1] = "num" THEN DigitsOf(v[2])
    ELSE IF v = Null THEN <<"n", "u", "l", "l">>
    ELSE <<"u", "n", "d", "e", "f", "i", "n", "e", "d">>

\* JavaScript truthiness of a value
Truthy(v) == v \notin {Undefined, Null, Str(<<>>), Num(0)}

UnreservedMarks == {"-", "_", ".", "!", "~", "*", "'", "(", ")"}

\* the percent-escape of the ASCII characters the model uses
PercentEscape(c) ==
    CASE c = " " -> <<"%", "2", "0">>
      [] c = "/" -> <<"%", "2", "F">>
      [] c = "{" -> <<"%", "7", "B">>
      [] c = "}" -> <<"%", "7", "D">>
      [] c = "$" -> <<"%", "2", "4">>
      [] c = "=" -> <<"%", "3", "D">>
      [] OTHER -> <<"%", "3", "F">>

RECURSIVE encodeURIComponent(_)
encodeURIComponent(s) ==
    IF s = <<>> THEN <<>>
    ELSE (IF IsAlnumChar(Head(s)) \/ Head(s) \in UnreservedMarks
          THEN <<Head(s)>> ELSE PercentEscape(Head(s)))
         \o encodeURIComponent(Tail(s))

\* how the field names of the model are spelled
FieldSpelling ==
    [id |-> <<"i", "d">>, q |-> <<"q">>, name |-> <<"n", "a", "m", "e">>,
     body |-> <<"b", "o", "d", "y">>,
     eventId |-> <<"e", "v", "e", "n", "t", "I", "d">>,
     startDate |-> <<"s", "t", "a", "r", "t", "D", "a", "t", "e">>,
     page |-> <<"p", "a", "g", "e">>, limit |-> <<"l", "i", "m", "i", "t">>,
     location |-> <<"l", "o", "c", "a", "t", "i", "o", "n">>,
     price |-> <<"p", "r", "i", "c", "e">>,
     organizer |-> <<"o", "r", "g", "a", "n", "i", "z", "e", "r">>]

\* `{${pathVar}}`
Placeholder(field) == <<"{">> \o FieldSpelling[field] \o <<"}">>

(***************************************************************************)
(* SchemaConverter (src/src/converters/schema-converter.ts). A schema is   *)
(* [type, properties, required]: properties and required are sequences of  *)
(* field names.                                                            *)
(***************************************************************************)
NoRequestBody == [absent |-> "requestBody"]
NoSchema == [absent |-> "schema"]

SupportedContentTypes ==
    <<"application/json", "application/x-www-form-urlencoded", "multipart/form-data">>

\* the first supported content type of the request body that has a schema, "" when none
FirstSupportedContentType(requestBody) ==
    LET found == SelectSeq(SupportedContentTypes,
                           LAMBDA ct : ct \in DOMAIN requestBody.content)
    IN IF found = <<>> THEN "" ELSE Head(found)

\* addParameterToSchema over parsedPath.parameters: the property keys and the
\* required list after the loop
ParameterProperties(parameters) == Range([i \in 1..Len(parameters) |-> parameters[i].name])

ParameterRequired(parameters) ==
    LET req == SelectSeq(parameters, LAMBDA p : p.required)
    IN [i \in 1..Len(req) |-> req[i].name]

\* flattenObjectSchema: what the body adds to the properties and to required
flattenObjectSchema(sourceSchema, required) ==
    IF sourceSchema.type = "object" /\ sourceSchema.properties # Undefined
    THEN [properties |-> Range(sourceSchema.properties),
          required |-> IF sourceSchema.required # Undefined
                       THEN sourceSchema.required ELSE <<>>]
    ELSE [properties |-> {"body"}, required |-> IF required THEN <<"body">> ELSE <<>>]

\* of the keywords the model carries, properties and required are copied for an
\* object schema only
convertOpenAPISchemaToJSONSchema(openApiSchema) ==
    [type |-> openApiSchema.type,
     properties |-> IF openApiSchema.type = "object"
                    THEN openApiSchema.properties ELSE Undefined,
     required |-> IF openApiSchema.type = "object"
                  THEN openApiSchema.required ELSE Undefined]

addRequestBodyToSchema(requestBody) ==
    LET ct == FirstSupportedContentType(requestBody)
    IN IF ct = "" THEN [properties |-> {}, required |-> <<>>]
       ELSE IF ct = "application/json"
       THEN flattenObjectSchema(convertOpenAPISchemaToJSONSchema(requestBody.content[ct]),
                                requestBody.required)
       ELSE [properties |-> {"body"},
             required |-> IF requestBody.required THEN <<"body">> ELSE <<>>]

convertToMCPInputSchema(parsedPath) ==
    LET body == IF parsedPath.requestBody = NoRequestBody
                THEN [properties |-> {}, required |-> <<>>]
                ELSE addRequestBodyToSchema(parsedPath.requestBody)
    IN [type |-> "object",
        properties |-> ParameterProperties(parsedPath.parameters) \cup body.properties,
        required |-> ParameterRequired(parsedPath.parameters) \o body.required]

\* the names of the parameters declared in one location, in declaration order
ParamsIn(parameters, location) ==
    LET there == SelectSeq(parameters, LAMBDA p : p.in = location)
    IN [i \in 1..Len(there) |-> there[i].name]

\* the keys of an object filled by assignments in this order: each key once,
\* at the place of its first assignment
RECURSIVE KeysInOrder(_)
KeysInOrder(names) ==
    IF names = <<>> THEN <<>>
    ELSE LET front == KeysInOrder(SubSeq(names, 1, Len(names) - 1))
             last == names[Len(names)]
         IN IF last \in Range(front) THEN front ELSE Append(front, last)

createParameterMapping(parsedPath) ==
    [pathParams |-> KeysInOrder(ParamsIn(parsedPath.parameters, "path")),
     queryParams |-> ParamsIn(parsedPath.parameters, "query"),
     headerParams |-> ParamsIn(parsedPath.parameters, "header"),
     cookieParams |-> ParamsIn(parsedPath.parameters, "cookie"),
     bodySchema |->
        IF /\ parsedPath.requestBody # NoRequestBody
           /\ "application/json" \in DOMAIN parsedPath.requestBody.content
        THEN convertOpenAPISchemaToJSONSchema(
                 parsedPath.requestBody.content["application/json"])
        ELSE NoSchema]

(***************************************************************************)
(* MCPProxyService.buildHttpRequest (src/src/services/mcp-proxy-service.ts)*)
(***************************************************************************)
\* lines 188-193: each path parameter that has a value replaces its placeholder
RECURSIVE ReplacePathParams(_, _, _)
ReplacePathParams(url, pathParams, allParams) ==
    IF pathParams = <<>> THEN url
    ELSE LET value == Lookup(allParams, Head(pathParams))
             next == IF value # Undefined
                     THEN ReplaceFirst(url, Placeholder(Head(pathParams)),
                                       encodeURIComponent(JsString(value)))
                     ELSE url
         IN ReplacePathParams(next, Tail(pathParams), allParams)

\* lines 196-201
RECURSIVE CollectQuery(_, _, _)
CollectQuery(queryParams, allParams, acc) ==
    IF queryParams = <<>> THEN acc
    ELSE LET value == Lookup(allParams, Head(queryParams))
         IN CollectQuery(Tail(queryParams), allParams,
                         IF value # Undefined
                         THEN Spread(acc, Head(queryParams) :> value) ELSE acc)

\* lines 204-209
RECURSIVE CollectHeaders(_, _, _)
CollectHeaders(headerParams, allParams, acc) ==
    IF headerParams = <<>> THEN acc
    ELSE LET value == Lookup(allParams, Head(headerParams))
         IN CollectHeaders(Tail(headerParams), allParams,
                           IF value # Undefined
                           THEN Spread(acc, Head(headerParams) :> Join(JsString(value)))
                           ELSE acc)

\* lines 212-221
RECURSIVE CollectCookies(_, _, _)
CollectCookies(cookieParams, allParams, headers) ==
    IF cookieParams = <<>> THEN headers
    ELSE LET value == Lookup(allParams, Head(cookieParams))
             existingCookies == IF "Cookie" \in DOMAIN headers THEN headers["Cookie"] ELSE ""
             newCookie == Head(cookieParams) \o "="
                          \o Join(encodeURIComponent(JsString(value)))
         IN CollectCookies(Tail(cookieParams), allParams,
                           IF value # Undefined
                           THEN Spread(headers,
                                       "Cookie" :> (IF existingCookies # ""
                                                    THEN existingCookies \o "; " \o newCookie
                                                    ELSE newCookie))
                           ELSE headers)

\* a body that takes every merged parameter
BodyParams_AllMerged(mapping, allParams) == allParams

\* lines 227-236: the merged parameters no other location uses
BodyParams(mapping, allParams) ==
    [key \in {k \in DOMAIN allParams :
                /\ k \notin Range(mapping.pathParams)
                /\ k \notin Range(mapping.queryParams)
                /\ k \notin Range(mapping.headerParams)
                /\ k \notin Range(mapping.cookieParams)} |-> allParams[key]]

DefaultHeaders ==
    [k \in {"Content-Type", "User-Agent"} |->
        IF k = "Content-Type" THEN "application/json" ELSE "openapi-mcp-server/1.0.0"]

\* the merge with the spread operands swapped
MergeParams_PredefinedWins(predefinedParams, params) == Spread(params, predefinedParams)

\* line 185: { ...tool.predefinedParams, ...params }
MergeParams(predefinedParams, params) == Spread(predefinedParams, params)

buildHttpRequest(tool, params) ==
    LET mapping == tool.parameterMapping
        allParams == MergeParams(tool.predefinedParams, params)
        url == ReplacePathParams(tool.endpoint.url, mapping.pathParams, allParams)
        queryParams == CollectQuery(mapping.queryParams, allParams, EmptyObject)
        headers1 == CollectHeaders(mapping.headerParams, allParams, DefaultHeaders)
        headers == CollectCookies(mapping.cookieParams, allParams, headers1)
        bodyParams == BodyParams(mapping, allParams)
        body1 == IF mapping.bodySchema # NoSchema /\ DOMAIN bodyParams # {}
                 THEN Rec(bodyParams) ELSE Undefined
        body == IF Truthy(Lookup(allParams, "body")) /\ mapping.bodySchema = NoSchema
                THEN allParams["body"] ELSE body1
    IN [method |-> tool.method,
        url |-> url,
        headers |-> headers,
        params |-> IF DOMAIN queryParams # {} THEN Rec(queryParams) ELSE Undefined,
        body |-> body]

(***************************************************************************)
(* DefinitionEnricher.generateEnrichedDefinition: one ToolDefinition       *)
(***************************************************************************)
UpperChar(c) == IF IndexIn(c, LowerChars) > 0 THEN UpperChars[IndexIn(c, LowerChars)] ELSE c

toUpperCase(s) == [i \in 1..Len(s) |-> UpperChar(s[i])]

NoAuthentication == [absent |-> "authentication"]

\* lines 88-104 of generateEnrichedDefinition
ToolOf(parsedPath, toolName, predefinedParams, authentication, serverUrl) ==
    [name |-> toolName,
     method |-> Join(toUpperCase(parsedPath.method)),
     endpoint |-> [path |-> parsedPath.path, url |-> serverUrl \o parsedPath.path],
     inputSchema |-> convertToMCPInputSchema(parsedPath),
     parameterMapping |-> createParameterMapping(parsedPath),
     predefinedParams |-> predefinedParams,
     authentication |-> authentication]

(***************************************************************************)
(* DefinitionEnricher: predefined parameters, authentication, the catalog  *)
(* (src/unnamed/part_007). A customization is an ordered-entries object.   *)
(***************************************************************************)
\* customization.toolAliases as a function from names to aliases
ToolAliases(customization) ==
    IF HasKey(customization, "toolAliases")
    THEN LET a == Get(customization, "toolAliases")
         IN [k \in Range(Keys(a)) |-> Get(a, k)[2]]
    ELSE EmptyObject

extractPredefinedParams(customization, toolName) ==
    LET predefined == IF HasKey(customization, "predefinedParameters")
                      THEN Get(customization, "predefinedParameters") ELSE Obj(<<>>)
        global == IF HasKey(predefined, "global")
                  THEN ObjToFun(Get(predefined, "global")) ELSE EmptyObject
        endpoints == IF HasKey(predefined, "endpoints")
                     THEN Get(predefined, "endpoints") ELSE Obj(<<>>)
        own == IF HasKey(endpoints, toolName)
               THEN ObjToFun(Get(endpoints, toolName)) ELSE EmptyObject
    IN Spread(global, own)

\* a credential set as a function from its keys to strings
CredentialsOf(o) == [k \in Range(Keys(o)) |-> Get(o, k)[2]]

\* a credential that is present and not the empty string
HasCredential(credentials, k) == k \in DOMAIN credentials /\ credentials[k] # ""

\* lines 148-155 and mcp-proxy-service.ts 274-281
InferAuthType(credentials) ==
    IF HasCredential(credentials, "username") /\ HasCredential(credentials, "password")
    THEN "basic"
    ELSE IF HasCredential(credentials, "token") THEN "bearer"
    ELSE IF HasCredential(credentials, "key") THEN "apiKey"
    ELSE "unknown"

\* the last matching override instead of the first
extractAuthenticationConfig_LastMatch(customization, toolName) ==
    IF ~HasKey(customization, "authenticationOverrides") THEN NoAuthentication
    ELSE LET overrides == Get(customization, "authenticationOverrides")[2]
             matching == SelectSeq(overrides,
                                   LAMBDA o : Get(o, "endpoint")[2] \in {"*", toolName})
         IN IF matching = <<>> THEN NoAuthentication
            ELSE LET credentials ==
                         CredentialsOf(Get(matching[Len(matching)], "credentials"))
                 IN [type |-> InferAuthType(credentials), credentials |-> credentials]

extractAuthenticationConfig(customization, toolName) ==
    IF ~HasKey(customization, "authenticationOverrides") THEN NoAuthentication
    ELSE LET overrides == Get(customization, "authenticationOverrides")[2]
             matching == SelectSeq(overrides,
                                   LAMBDA o : Get(o, "endpoint")[2] \in {"*", toolName})
         IN IF matching = <<>> THEN NoAuthentication
            ELSE LET credentials == CredentialsOf(Get(Head(matching), "credentials"))
                 IN [type |-> InferAuthType(credentials), credentials |-> credentials]

\* lines 76-104: the tool of one operation, once its name is generated
NamedTool(parsedPath, customization, serverUrl, toolName) ==
    ToolOf(parsedPath, toolName,
           extractPredefinedParams(customization, toolName),
           extractAuthenticationConfig(customization, toolName),
           serverUrl)

\* line 67: parsed.servers[0] || ''
FirstServer(parsed) == IF parsed.servers # <<>> THEN Head(parsed.servers) ELSE <<>>

\* lines 67-107: one tool per parsed operation, in the order of parsed.paths
generateTools(parsed, customization) ==
    [i \in 1..Len(parsed.paths) |->
        NamedTool(parsed.paths[i], customization, FirstServer(parsed),
                  generateToolName(ToolAliases(customization), parsed.paths[i]))]

generateEnrichedDefinition(parsed, customization, sourceFile, hash) ==
    [hash |-> hash,
     serverUrl |-> FirstServer(parsed),
     tools |-> generateTools(parsed, customization),
     metadata |-> [sourceFile |-> sourceFile]]

\* tryLoadFromCache: the cache directory is the set of the enriched definitions
\* written to it, one file per hash; the source file of a definition being
\* loaded exists, so an entry found is valid
CacheHit(cached, hash) == \E e \in cached : e.hash = hash

tryLoadFromCache(cached, hash) == CHOOSE e \in cached : e.hash = hash

\* saveToCache: writeFile replaces the file of the same hash
saveToCache(cached, enriched) ==
    {e \in cached : e.hash # enriched.hash} \cup {enriched}

\* lines 47-52: the definition generated is saved when there is a cache directory
Generated(libraryConfig, cached, enriched) ==
    [enriched |-> enriched,
     cacheFiles |-> IF libraryConfig.cacheDirectory
                    THEN saveToCache(cached, enriched) ELSE cached,
     fromCache |-> FALSE]

\* lines 30-52, once the combined hash is known
EnrichWithHash(libraryConfig, cached, parsed, customization, sourceFile, combinedHash) ==
    IF /\ libraryConfig.cacheDirectory /\ ~libraryConfig.forceRegeneration
       /\ CacheHit(cached, combinedHash)
    THEN [enriched |-> tryLoadFromCache(cached, combinedHash),
          cacheFiles |-> cached,
          fromCache |-> TRUE]
    ELSE Generated(libraryConfig, cached,
                   generateEnrichedDefinition(parsed, customization, sourceFile,
                                              combinedHash))

\* enrichDefinition: the definition returned and the cache directory afterwards
enrichDefinition(libraryConfig, cached, parsed, customization, sourceFile) ==
    EnrichWithHash(libraryConfig, cached, parsed, customization, sourceFile,
                   generateCombinedHash(parsed, customization))

(***************************************************************************)
(* AuthenticationHandler (src/src/handlers/authentication-handler.ts).     *)
(* A result is [ok, request]; ok = FALSE is AuthenticationFailed.          *)
(***************************************************************************)
AuthOk(request) == [ok |-> TRUE, request |-> request]
AuthFailed(request) == [ok |-> FALSE, request |-> request]

SetHeader(request, name, value) ==
    [request EXCEPT !.headers = Spread(request.headers, name :> value)]

\* Buffer.from(text).toString('base64'), kept symbolic
Base64(text) == "base64(" \o text \o ")"

applyBasicAuth(request, credentials) ==
    IF ~HasCredential(credentials, "username") \/ ~HasCredential(credentials, "password")
    THEN AuthFailed(request)
    ELSE AuthOk(SetHeader(request, "Authorization",
                          "Basic " \o Base64(credentials["username"] \o ":"
                                             \o credentials["password"])))

\* bearer authentication that does not look whether there is a token
applyBearerAuth_NoCheck(request, credentials) ==
    AuthOk(SetHeader(request, "Authorization",
                     "Bearer " \o (IF "token" \in DOMAIN credentials
                                   THEN credentials["token"] ELSE "undefined")))

applyBearerAuth(request, credentials) ==
    IF ~HasCredential(credentials, "token") THEN AuthFailed(request)
    ELSE AuthOk(SetHeader(request, "Authorization", "Bearer " \o credentials["token"]))

applyApiKeyAuth(request, credentials) ==
    LET name == IF "name" \in DOMAIN credentials THEN credentials["name"] ELSE "X-API-Key"
        location == IF "in" \in DOMAIN credentials THEN credentials["in"] ELSE "header"
    IN IF ~HasCredential(credentials, "key") THEN AuthFailed(request)
       ELSE IF location = "header"
       THEN AuthOk(SetHeader(request, name, credentials["key"]))
       ELSE IF location = "query"
       THEN AuthOk([request EXCEPT !.params =
                       Rec(Spread(IF request.params = Undefined
                                  THEN EmptyObject ELSE request.params[2],
                                  name :> Str(credentials["key"])))])
       ELSE IF location = "cookie"
       THEN LET existingCookies == IF "Cookie" \in DOMAIN request.headers
                                   THEN request.headers["Cookie"] ELSE ""
                newCookie == name \o "=" \o credentials["key"]
            IN AuthOk(SetHeader(request, "Cookie",
                                IF existingCookies # ""
                                THEN existingCookies \o "; " \o newCookie
                                ELSE newCookie))
       ELSE AuthFailed(request)

\* lines 146-192; scheme.name and scheme.in are "" when the scheme has none
applyApiKeyAuthWithScheme(request, scheme, credentials) ==
    IF ~HasCredential(credentials, "key") THEN AuthFailed(request)
    ELSE IF scheme.name = "" \/ scheme.in = "" THEN AuthFailed(request)
    ELSE IF scheme.in = "header"
    THEN AuthOk(SetHeader(request, scheme.name, credentials["key"]))
    ELSE IF scheme.in = "query"
    THEN AuthOk([request EXCEPT !.params =
                    Rec(Spread(IF request.params = Undefined
                               THEN EmptyObject ELSE request.params[2],
                               scheme.name :> Str(credentials["key"])))])
    ELSE IF scheme.in = "cookie"
    THEN LET existingCookies == IF "Cookie" \in DOMAIN request.headers
                                THEN request.headers["Cookie"] ELSE ""
             newCookie == scheme.name \o "=" \o credentials["key"]
         IN AuthOk(SetHeader(request, "Cookie",
                             IF existingCookies # ""
                             THEN existingCookies \o "; " \o newCookie
                             ELSE newCookie))
    ELSE AuthFailed(request)

\* lines 36-80
applySecurityScheme(request, scheme, credentials) ==
    CASE scheme.type = "http" ->
            IF scheme.scheme = "basic" THEN applyBasicAuth(request, credentials)
            ELSE IF scheme.scheme = "bearer" THEN applyBearerAuth(request, credentials)
            ELSE AuthFailed(request)
      [] scheme.type = "apiKey" -> applyApiKeyAuthWithScheme(request, scheme, credentials)
      [] scheme.type = "oauth2" -> applyBearerAuth(request, credentials)
      [] scheme.type = "openIdConnect" -> applyBearerAuth(request, credentials)
      [] OTHER -> AuthFailed(request)

applyAuth(request, authConfig) ==
    CASE authConfig.type = "basic" -> applyBasicAuth(request, authConfig.credentials)
      [] authConfig.type = "bearer" -> applyBearerAuth(request, authConfig.credentials)
      [] authConfig.type = "apiKey" -> applyApiKeyAuth(request, authConfig.credentials)
      [] OTHER -> AuthFailed(request)

\* line 11, { ...request }: the copy holds the input's headers object, and the
\* input's params object when it has one; lines 93, 106, 121, 126 and 133 assign
\* into these objects, line 125 gives only the copy a new params object. This
\* is the input request after the call that returned updatedRequest.
InputAfterApplyAuth(request, updatedRequest) ==
    [request EXCEPT !.headers = updatedRequest.headers,
                    !.params = IF request.params = Undefined THEN Undefined
                               ELSE updatedRequest.params]

\* the merge with the default credentials winning
mergeCredentials_DefaultsWin(defaultCredentials, toolCredentials) ==
    Spread(toolCredentials, defaultCredentials)

mergeCredentials(defaultCredentials, toolCredentials) ==
    Spread(defaultCredentials, toolCredentials)

(***************************************************************************)
(* MCPProxyService: lookup, validation, authentication                     *)
(* (src/src/services/mcp-proxy-service.ts)                                 *)
(***************************************************************************)
NoTool == [absent |-> "tool"]

\* the tools of the loaded definitions, in the iteration order of the map
LoadedTools(loaded) ==
    IF "museum-api.yaml" \in DOMAIN loaded THEN loaded["museum-api.yaml"].tools ELSE <<>>

\* enriched.tools.find(t => t.name === toolName): the first tool of that name
findToolDefinition(loaded, toolName) ==
    LET named == SelectSeq(LoadedTools(loaded), LAMBDA t : t.name = toolName)
    IN IF named = <<>> THEN NoTool ELSE Head(named)

\* a validation that lets null through
validateParameters_UndefinedOnly(tool, params) ==
    LET missing == SelectSeq(tool.inputSchema.required,
                             LAMBDA r : Lookup(params, r) = Undefined)
    IN [i \in 1..Len(missing) |-> "Missing required parameter: " \o missing[i]]

\* the errors of validateParameters, one per required name that is missing
validateParameters(tool, params) ==
    LET missing == SelectSeq(tool.inputSchema.required,
                             LAMBDA r : Lookup(params, r) \in {Undefined, Null})
    IN [i \in 1..Len(missing) |-> "Missing required parameter: " \o missing[i]]

applyAuthentication(libraryConfig, request, tool) ==
    IF tool.authentication # NoAuthentication
    THEN applyAuth(request,
                   [type |-> tool.authentication.type,
                    credentials |-> mergeCredentials(libraryConfig.defaultCredentials,
                                                     tool.authentication.credentials)])
    ELSE IF InferAuthType(libraryConfig.defaultCredentials) # "unknown"
    THEN applyAuth(request, [type |-> InferAuthType(libraryConfig.defaultCredentials),
                             credentials |-> libraryConfig.defaultCredentials])
    ELSE AuthOk(request)

(***************************************************************************)
(* SpecName: generateToolName applied to one operation without             *)
(* operationId and without aliases.                                        *)
(***************************************************************************)
PathAlphabet == {"/", "a", "E", "{", "}", "_"}

RECURSIVE SeqsUpTo(_, _)
SeqsUpTo(S, n) ==
    IF n = 0 THEN {<<>>}
    ELSE LET shorter == SeqsUpTo(S, n - 1)
         IN shorter \cup {Append(s, c) : s \in {t \in shorter : Len(t) = n - 1}, c \in S}

SpecialEventsPath ==
    <<"/","s","p","e","c","i","a","l","-","e","v","e","n","t","s","/","{","e","v","e","n","t","I","d","}">>
MuseumHoursPath == <<"/","m","u","s","e","u","m","-","h","o","u","r","s">>
TicketQrPath == <<"/","t","i","c","k","e","t","s","/","{","t","i","c","k","e","t","I","d","}","/","q","r">>

NamePaths ==
    {SpecialEventsPath, MuseumHoursPath, TicketQrPath}
    \cup {<<"/">> \o s : s \in SeqsUpTo(PathAlphabet, MaxPathLen)}

NameMethods == {<<"g","e","t">>, <<"d","e","l","e","t","e">>}

IdleName == nmOp = NoResult /\ nmName = NoResult

IdleHash == hsIn = NoResult /\ hsOut = <<>>

IdleReq == rqIn = NoResult /\ rqOut = NoOutput

IdleAuth == auIn = NoResult /\ auOut = NoOutput

IdleLoad ==
    /\ ldDir = NoResult /\ ldConfig = NoResult /\ ldCache = NoResult
    /\ ldService = NoResult /\ ldClock = 0 /\ ldCalls = NoResult
    /\ ldFirst = NoResult /\ ldLast = NoResult

IdleConc == ccLoaded = NoResult /\ ccCallers = NoResult /\ ccCalls = 0

IdleCli ==
    /\ clArgs = NoResult /\ clEnv = NoResult /\ clServer = NoResult
    /\ clDisk = NoResult /\ clLast = NoResult

IdleSchema == scIn = NoResult /\ scOut = NoResult

IdleParam == ppIn = NoResult /\ ppOut = NoResult

IdleOverride == ovIn = NoResult /\ ovOut = NoResult

IdleMore == IdleCli /\ IdleSchema /\ IdleParam /\ IdleOverride

IdleExtra == IdleAuth /\ IdleLoad /\ IdleConc /\ IdleMore

NoEnrich == [absent |-> "enrichDefinition"]
NoCall == [absent |-> "call"]

IdleMain ==
    /\ definitionFile = NoResult /\ customFile = NoResult /\ config = NoResult
    /\ cacheFiles = {} /\ loadedDefinitions = EmptyObject
    /\ lastEnrich = NoEnrich /\ lastCall = NoCall /\ edits = 0

InitName ==
    /\ IdleHash
    /\ IdleReq
    /\ IdleMain
    /\ IdleExtra
    /\ nmOp \in [path : NamePaths, method : NameMethods, operationId : {NoOperationId}]
    /\ nmName = NoResult

GenerateToolName ==
    /\ nmName = NoResult
    /\ nmName' = generateToolName(<<>>, nmOp)
    /\ UNCHANGED <<nmOp, hashVars, reqVars, mainVars, extraVars>>

NextName == GenerateToolName

SpecName == InitName /\ [][NextName]_vars

(***************************************************************************)
(* SpecHash: generateCombinedHash applied to two (parsed, customization)   *)
(* inputs.                                                                 *)
(***************************************************************************)
Absent == <<"absent">>

AliasChoices ==
    {Absent,
     Obj(<< <<"getMuseumHours", Str("list-museum-hours")>> >>),
     Obj(<< <<"getMuseumHours", Str("hours")>> >>),
     Obj(<< <<"getMuseumHours", Str("hours")>>, <<"createEvent", Str("create-event")>> >>),
     Obj(<< <<"createEvent", Str("create-event")>>, <<"getMuseumHours", Str("hours")>> >>)}

PredefinedChoices ==
    {Absent,
     Obj(<< <<"global", Obj(<< <<"page", Num(1)>>, <<"limit", Num(10)>> >>)>> >>),
     Obj(<< <<"global", Obj(<< <<"page", Num(1)>>, <<"limit", Num(20)>> >>)>> >>),
     Obj(<< <<"endpoints", Obj(<< <<"getMuseumHours", Obj(<< <<"page", Num(1)>> >>)>> >>)>> >>)}

OverrideChoices ==
    {Absent,
     Arr(<< Obj(<< <<"endpoint", Str("*")>>,
                   <<"credentials", Obj(<< <<"token", Str("t1")>> >>)>> >>) >>),
     Arr(<< Obj(<< <<"endpoint", Str("*")>>,
                   <<"credentials", Obj(<< <<"token", Str("t2")>> >>)>> >>) >>),
     Arr(<< Obj(<< <<"endpoint", Str("createEvent")>>,
                   <<"credentials", Obj(<< <<"token", Str("t1")>> >>)>> >>) >>),
     Arr(<< Obj(<< <<"credentials", Obj(<< <<"token", Str("t1")>> >>)>>,
                   <<"endpoint", Str("*")>> >>) >>)}

Reverse(s) == [i \in 1..Len(s) |-> s[Len(s) + 1 - i]]

\* a CustomizationConfig with the given sections, in the loader's key order or
\* in the opposite one
MakeCustomization(aliases, predefined, overrides, reversed) ==
    LET all == << <<"toolAliases", aliases>>, <<"predefinedParameters", predefined>>,
                  <<"authenticationOverrides", overrides>> >>
        given == SelectSeq(all, LAMBDA e : e[2] # Absent)
    IN Obj(IF reversed THEN Reverse(given) ELSE given)

HashCustomizations ==
    {MakeCustomization(a, p, o, r) :
        a \in AliasChoices, p \in PredefinedChoices, o \in OverrideChoices, r \in BOOLEAN}

SourceHashes == {"sha-of-source-1", "sha-of-source-2"}

InitHash ==
    /\ IdleName
    /\ IdleReq
    /\ IdleMain
    /\ IdleExtra
    /\ hsIn \in {<<[parsed |-> [hash |-> "sha-of-source-1"], customization |-> c1],
                  [parsed |-> [hash |-> h2], customization |-> c2]>> :
                    c1 \in HashCustomizations, c2 \in HashCustomizations, h2 \in SourceHashes}
    /\ hsOut = <<>>

GenerateCombinedHashes ==
    /\ hsOut = <<>>
    /\ hsOut' = <<generateCombinedHash(hsIn[1].parsed, hsIn[1].customization),
                  generateCombinedHash(hsIn[2].parsed, hsIn[2].customization)>>
    /\ UNCHANGED <<hsIn, nameVars, reqVars, mainVars, extraVars>>

NextHash == GenerateCombinedHashes

SpecHash == InitHash /\ [][NextHash]_vars

(***************************************************************************)
(* SpecReq: one operation is compiled to a tool and buildHttpRequest is    *)
(* applied to the caller's arguments.                                      *)
(***************************************************************************)
Locations == {"path", "query", "header", "cookie"}

ReqParameters ==
    [name : {"id"}, in : {"path", "query"}, required : {FALSE}]
    \cup [name : {"q"}, in : {"query", "header", "cookie"}, required : {FALSE}]

ObjectSchema(props) == [type |-> "object", properties |-> props, required |-> <<>>]
StringSchema == [type |-> "string", properties |-> Undefined, required |-> Undefined]

JsonBody(schema) ==
    [required |-> TRUE, content |-> [ct \in {"application/json"} |-> schema]]

ReqBodies == {NoRequestBody, JsonBody(ObjectSchema(<<"q", "name">>))}

Chars_x_id == <<"/", "x", "/", "{", "i", "d", "}">>
Chars_x_id_id == <<"/", "x", "/", "{", "i", "d", "}", "/", "{", "i", "d", "}">>
ReqPaths == {Chars_x_id, Chars_x_id_id}

ServerUrl == <<"h", "t", "t", "p", ":", "/", "/", "h">>

GetMethod == <<"g", "e", "t">>
PostMethod == <<"p", "o", "s", "t">>

ReqOps ==
    [path : ReqPaths, method : {PostMethod}, operationId : {NoOperationId},
     parameters : SeqsUpTo(ReqParameters, MaxParams), requestBody : ReqBodies]

PartialFunctions(S, V) == UNION {[D -> V] : D \in SUBSET S}

Val_a_b == Str(<<"a", "/", "b">>)
Val_date == Str(<<"2", "0", "2", "4", "-", "0", "1", "-", "0", "1">>)

ReqPredefined == PartialFunctions({"q", "name"}, {Num(1)})

ReqArgs ==
    {a \in PartialFunctions({"id", "q", "name"}, {Val_a_b, Undefined}) :
        \A k \in DOMAIN a : a[k] = Undefined => k = "q"}

\* the operations and calls the specification's testable properties name
QueryParam(n) == [name |-> n, in |-> "query", required |-> FALSE]

MuseumHoursOp ==
    [path |-> MuseumHoursPath, method |-> GetMethod, operationId |-> "getMuseumHours",
     parameters |-> <<QueryParam("startDate"), QueryParam("page"), QueryParam("limit")>>,
     requestBody |-> NoRequestBody]

CreateEventOp ==
    [path |-> <<"/", "s", "p", "e", "c", "i", "a", "l", "-", "e", "v", "e", "n", "t", "s">>,
     method |-> PostMethod, operationId |-> "createEvent",
     parameters |-> <<>>,
     requestBody |-> JsonBody(ObjectSchema(<<"name", "location", "price">>))]

GetEventOp ==
    [path |-> SpecialEventsPath, method |-> GetMethod, operationId |-> NoOperationId,
     parameters |-> <<[name |-> "eventId", in |-> "path", required |-> TRUE]>>,
     requestBody |-> NoRequestBody]

ExampleCalls ==
    {[op |-> MuseumHoursOp,
      predefined |-> [k \in {"page", "limit"} |-> IF k = "page" THEN Num(1) ELSE Num(10)],
      args |-> [k \in {"startDate", "limit"} |-> IF k = "limit" THEN Num(20) ELSE Val_date]],
     [op |-> CreateEventOp,
      predefined |-> [k \in {"organizer"} |-> Str(<<"s", "t", "a", "f", "f">>)],
      args |-> [k \in {"name", "location", "price"} |->
                   IF k = "price" THEN Num(25) ELSE Str(<<"H", "a", "l", "l", " ", "A">>)]],
     [op |-> CreateEventOp, predefined |-> EmptyObject, args |-> EmptyObject],
     [op |-> GetEventOp, predefined |-> EmptyObject,
      args |-> [k \in {"eventId"} |-> Str(<<"a", "b", "c", "-", "1", "2", "3">>)]],
     [op |-> GetEventOp, predefined |-> EmptyObject,
      args |-> [k \in {"eventId"} |-> Null]]}

InitReq ==
    /\ IdleName
    /\ IdleHash
    /\ IdleMain
    /\ IdleExtra
    /\ rqIn \in [op : ReqOps, predefined : ReqPredefined, args : ReqArgs] \cup ExampleCalls
    /\ rqOut = NoOutput

BuildHttpRequest ==
    /\ rqOut = NoOutput
    /\ LET tool == ToolOf(rqIn.op, generateToolName(<<>>, rqIn.op), rqIn.predefined,
                          NoAuthentication, ServerUrl)
       IN rqOut' = [tool |-> tool, request |-> buildHttpRequest(tool, rqIn.args)]
    /\ UNCHANGED <<rqIn, nameVars, hashVars, mainVars, extraVars>>

NextReq == BuildHttpRequest

SpecReq == InitReq /\ [][NextReq]_vars

(***************************************************************************)
(* SpecBody: buildHttpRequest for operations whose request body is not a   *)
(* JSON object with properties: a form body, or a JSON string, array or    *)
(* free-form object. The action is the one of SpecReq.                     *)
(***************************************************************************)
ArraySchema == [type |-> "array", properties |-> Undefined, required |-> Undefined]
FreeFormSchema == [type |-> "object", properties |-> Undefined, required |-> Undefined]

BodyOf(contentType, schema, required) ==
    [required |-> required, content |-> [ct \in {contentType} |-> schema]]

SingleFieldBodies ==
    {BodyOf(ct, schema, required) :
        ct \in {"application/json", "application/x-www-form-urlencoded"},
        schema \in {StringSchema, ArraySchema, FreeFormSchema},
        required \in BOOLEAN}
    \cup {BodyOf("multipart/form-data", ObjectSchema(<<"name">>), TRUE)}

BodyOps ==
    [path : {Chars_x_id}, method : {PostMethod}, operationId : {NoOperationId},
     parameters : {<<[name |-> "id", in |-> "path", required |-> TRUE]>>},
     requestBody : SingleFieldBodies]

BodyValues ==
    {Str(<<"r", "a", "w">>), Str(<<>>), Null,
     Rec([k \in {"name"} |-> Str(<<"H", "a", "l", "l">>)])}

BodyArgs ==
    {a \in PartialFunctions({"id", "body"}, BodyValues) :
        "id" \in DOMAIN a => a["id"] = Str(<<"r", "a", "w">>)}

BodyPredefined == {EmptyObject, [k \in {"body"} |-> Str(<<"s", "e", "t">>)]}

InitBody ==
    /\ IdleName
    /\ IdleHash
    /\ IdleMain
    /\ IdleExtra
    /\ rqIn \in [op : BodyOps, predefined : BodyPredefined, args : BodyArgs]
    /\ rqOut = NoOutput

SpecBody == InitBody /\ [][NextReq]_vars

(***************************************************************************)
(* Spec: the service over one definitions directory. The directory holds   *)
(* museum-api.yaml and, possibly, museum-api.custom.yaml; both can be      *)
(* edited between calls. Every call of the service loads the definitions   *)
(* before it does anything else.                                           *)
(***************************************************************************)
DefinitionFileName == "museum-api.yaml"

\* a second operation that declares the operationId of MuseumHoursOp
DuplicateIdOp ==
    [path |-> Chars_x_id, method |-> GetMethod, operationId |-> "getMuseumHours",
     parameters |-> <<[name |-> "id", in |-> "path", required |-> TRUE]>>,
     requestBody |-> NoRequestBody]

\* GetEventOp with an operationId
GetEventByIdOp == [GetEventOp EXCEPT !.operationId = "getEvent"]

MuseumApi ==
    [hash |-> "sha-of-source-1", servers |-> <<ServerUrl>>,
     paths |-> <<MuseumHoursOp, GetEventByIdOp, CreateEventOp>>]

MainSources ==
    {MuseumApi,
     [hash |-> "sha-of-source-2", servers |-> <<ServerUrl>>,
      paths |-> <<MuseumHoursOp, DuplicateIdOp>>]}

TokenOverride(token) ==
    Arr(<< Obj(<< <<"endpoint", Str("*")>>,
                  <<"credentials", Obj(<< <<"token", Str(token)>> >>)>> >>) >>)

LimitTen == Obj(<< <<"global", Obj(<< <<"limit", Num(10)>> >>)>> >>)

\* the alias of the README
MuseumCustomization ==
    MakeCustomization(Obj(<< <<"getMuseumHours", Str("list-museum-hours")>> >>),
                      Absent, Absent, FALSE)

MainCustomizations ==
    {MuseumCustomization,
     MakeCustomization(Obj(<< <<"getMuseumHours", Str("hours")>> >>),
                       Absent, Absent, FALSE),
     MakeCustomization(Obj(<< <<"createEvent", Str("getMuseumHours")>> >>),
                       Absent, Absent, FALSE),
     MakeCustomization(Obj(<< <<"getMuseumHours", Str("hours")>> >>),
                       LimitTen, TokenOverride(""), FALSE)}

MainConfigs ==
    {[cacheDirectory |-> TRUE, forceRegeneration |-> FALSE, defaultCredentials |-> EmptyObject],
     [cacheDirectory |-> TRUE, forceRegeneration |-> TRUE,
      defaultCredentials |-> [k \in {"token"} |-> "dt"]],
     [cacheDirectory |-> FALSE, forceRegeneration |-> FALSE, defaultCredentials |-> EmptyObject]}

CallNames == {"getMuseumHours", "hours", "createEvent", "getEvent"}

Val_abc_123 == Str(<<"a", "b", "c", "-", "1", "2", "3">>)

CallArgs ==
    {EmptyObject,
     [k \in {"eventId"} |-> Val_abc_123],
     [k \in {"eventId"} |-> Null],
     [k \in {"eventId"} |-> Undefined]}

\* the responses a server gives
ResponseOf(status, statusText) ==
    [status |-> status, statusText |-> statusText,
     headers |-> [h \in {"content-type"} |-> "application/json"],
     data |-> Str(statusText)]

Responses ==
    {ResponseOf(200, "OK"), ResponseOf(404, "Not Found"), ResponseOf(500, "Server Error")}

NoResponse == [absent |-> "response"]

\* what the transport does with a request: a response of the server, no
\* response, or a failure before anything is sent
Outcomes == Responses \cup {[failure |-> "no_response"], [failure |-> "setup_error"]}

IsResponse(outcome) == "status" \in DOMAIN outcome

\* no request reached the transport
NoOutcome == [absent |-> "outcome"]

Init ==
    /\ IdleName
    /\ IdleHash
    /\ IdleReq
    /\ IdleExtra
    /\ definitionFile = MuseumApi
    /\ customFile = MuseumCustomization
    /\ config \in MainConfigs
    /\ cacheFiles = {}
    /\ loadedDefinitions = EmptyObject
    /\ lastEnrich = NoEnrich
    /\ lastCall = NoCall
    /\ edits = 0

\* what enrichDefinition returned, stored under the file's name
Loaded(loaded, r) ==
    [loaded |-> Spread(loaded, DefinitionFileName :> r.enriched),
     cacheFiles |-> r.cacheFiles,
     lastEnrich |-> [parsed |-> definitionFile, customization |-> customFile,
                     fromCache |-> r.fromCache]]

\* loadAllDefinitions / loadDefinition over the directory as it is now: the
\* enrichDefinition call made and the map afterwards
LoadAllDefinitions(loaded) ==
    Loaded(loaded, enrichDefinition(config, cacheFiles, definitionFile, customFile,
                                    DefinitionFileName))

\* an executeTool call that ends before anything is sent
Thrown(toolName, parameters, toolDef, type, errors) ==
    [kind |-> "executeTool", toolName |-> toolName, parameters |-> parameters,
     tool |-> toolDef, sent |-> <<>>, thrown |-> type, errors |-> errors,
     result |-> [absent |-> "result"], request |-> [absent |-> "request"],
     response |-> NoResponse, outcome |-> NoOutcome]

\* the step with the failure of authentication ignored
Authenticate_SendsAnyway(toolName, parameters, toolDef, authenticated) ==
    [kind |-> "executeTool", toolName |-> toolName, parameters |-> parameters,
     tool |-> toolDef, sent |-> <<>>, thrown |-> "none", errors |-> <<>>,
     result |-> [absent |-> "result"], request |-> authenticated.request,
     response |-> NoResponse, outcome |-> NoOutcome]

\* lines 72-76, once validation has passed
Authenticate(toolName, parameters, toolDef, authenticated) ==
    IF ~authenticated.ok
    THEN Thrown(toolName, parameters, toolDef, "authentication_failed", <<>>)
    ELSE [kind |-> "executeTool", toolName |-> toolName, parameters |-> parameters,
          tool |-> toolDef, sent |-> <<>>, thrown |-> "none", errors |-> <<>>,
          result |-> [absent |-> "result"], request |-> authenticated.request,
          response |-> NoResponse, outcome |-> NoOutcome]

\* lines 62-76, once the tool is found
Validate(toolName, parameters, toolDef, errors) ==
    IF errors # <<>>
    THEN Thrown(toolName, parameters, toolDef, "parameter_validation", errors)
    ELSE Authenticate(toolName, parameters, toolDef,
                      applyAuthentication(config, buildHttpRequest(toolDef, parameters),
                                          toolDef))

\* the lookup followed by a validation of the merged parameters
Found_ValidatesMerged(toolName, parameters, toolDef) ==
    IF toolDef = NoTool
    THEN Thrown(toolName, parameters, toolDef, "missing_tool", <<>>)
    ELSE Validate(toolName, parameters, toolDef,
                  validateParameters(toolDef,
                                     MergeParams(toolDef.predefinedParams, parameters)))

\* lines 54-76, once the tool is looked up
Found(toolName, parameters, toolDef) ==
    IF toolDef = NoTool
    THEN Thrown(toolName, parameters, toolDef, "missing_tool", <<>>)
    ELSE Validate(toolName, parameters, toolDef, validateParameters(toolDef, parameters))

\* executeTool up to the call of executeHttpRequest: the call as it stands, with
\* thrown = "none" and the authenticated request when nothing was thrown
BeforeTransport(loaded, toolName, parameters) ==
    Found(toolName, parameters, findToolDefinition(loaded, toolName))

\* executeHttpRequest: the axios configuration and what the caller gets
AxiosConfig(request) ==
    [method |-> request.method, url |-> request.url, headers |-> request.headers,
     params |-> IF Truthy(request.params) THEN request.params ELSE Undefined,
     data |-> IF Truthy(request.body) THEN request.body ELSE Undefined]

\* axios' default validateStatus: the promise resolves for a 2xx status
ValidateStatus(status) == status >= 200 /\ status < 300

\* lines 313-318: what is returned for a response axios resolves with
ResolvedResult(response) ==
    [status |-> response.status, statusText |-> response.statusText,
     headers |-> response.headers, data |-> response.data]

\* lines 321-329: what is returned for a response axios rejects with
RejectedResult(response) ==
    [error |-> TRUE, status |-> response.status, statusText |-> response.statusText,
     message |-> "Request failed with status code " \o Join(DigitsOf(response.status)),
     data |-> response.data]

\* an executeHttpRequest that sends again when no response came
executeHttpRequest_Retries(call, outcome) ==
    [call EXCEPT
        !.sent = IF IsResponse(outcome) \/ outcome.failure # "no_response"
                 THEN <<AxiosConfig(call.request)>>
                 ELSE <<AxiosConfig(call.request), AxiosConfig(call.request)>>,
        !.outcome = outcome,
        !.response = IF IsResponse(outcome) THEN outcome ELSE NoResponse,
        !.thrown = IF IsResponse(outcome) THEN "none"
                   ELSE IF outcome.failure = "no_response" THEN "network_error"
                   ELSE "api_request_failed",
        !.result = IF ~IsResponse(outcome) THEN [absent |-> "result"]
                   ELSE IF ValidateStatus(outcome.status) THEN ResolvedResult(outcome)
                   ELSE RejectedResult(outcome)]

executeHttpRequest(call, outcome) ==
    [call EXCEPT
        !.sent = <<AxiosConfig(call.request)>>,
        !.outcome = outcome,
        !.response = IF IsResponse(outcome) THEN outcome ELSE NoResponse,
        !.thrown = IF IsResponse(outcome) THEN "none"
                   ELSE IF outcome.failure = "no_response" THEN "network_error"
                   ELSE "api_request_failed",
        !.result = IF ~IsResponse(outcome) THEN [absent |-> "result"]
                   ELSE IF ValidateStatus(outcome.status) THEN ResolvedResult(outcome)
                   ELSE RejectedResult(outcome)]

EditCustomization(c) ==
    /\ edits < MaxEdits
    /\ c # customFile
    /\ customFile' = c
    /\ edits' = edits + 1
    /\ UNCHANGED <<definitionFile, config, serviceVars, lastCall, nameVars, hashVars, reqVars, extraVars>>

EditSource(d) ==
    /\ edits < MaxEdits
    /\ d # definitionFile
    /\ definitionFile' = d
    /\ edits' = edits + 1
    /\ UNCHANGED <<customFile, config, serviceVars, lastCall, nameVars, hashVars, reqVars, extraVars>>

\* lines 36-46: the MCPTool of a tool
MCPToolOf(tool) == [name |-> tool.name, inputSchema |-> tool.inputSchema]

GetAvailableTools ==
    \E l \in {LoadAllDefinitions(loadedDefinitions)} :
       /\ loadedDefinitions' = l.loaded
       /\ cacheFiles' = l.cacheFiles
       /\ lastEnrich' = l.lastEnrich
       /\ \E tools \in {LoadedTools(l.loaded)} :
             lastCall' = [kind |-> "getAvailableTools",
                          tools |-> [i \in 1..Len(tools) |-> MCPToolOf(tools[i])]]
       /\ UNCHANGED <<diskVars, config, nameVars, hashVars, reqVars, extraVars>>

\* the transport's outcome is drawn when a request reaches it
ExecuteTool ==
    \E l \in {LoadAllDefinitions(loadedDefinitions)} :
       /\ loadedDefinitions' = l.loaded
       /\ cacheFiles' = l.cacheFiles
       /\ lastEnrich' = l.lastEnrich
       /\ \E toolName \in CallNames, parameters \in CallArgs :
             \E call \in {BeforeTransport(l.loaded, toolName, parameters)} :
                IF call.thrown = "none"
                THEN \E outcome \in Outcomes : lastCall' = executeHttpRequest(call, outcome)
                ELSE lastCall' = call
       /\ UNCHANGED <<diskVars, config, nameVars, hashVars, reqVars, extraVars>>

ReloadDefinitions ==
    \E l \in {LoadAllDefinitions(EmptyObject)} :
       /\ loadedDefinitions' = l.loaded
       /\ cacheFiles' = l.cacheFiles
       /\ lastEnrich' = l.lastEnrich
       /\ lastCall' = [kind |-> "reloadDefinitions"]
       /\ UNCHANGED <<diskVars, config, nameVars, hashVars, reqVars, extraVars>>

Next ==
    \/ \E c \in MainCustomizations : EditCustomization(c)
    \/ \E d \in MainSources : EditSource(d)
    \/ GetAvailableTools
    \/ ExecuteTool
    \/ ReloadDefinitions

Spec == Init /\ [][Next]_vars

(***************************************************************************)
(* SpecPredefined: the service of Spec over a directory that is not        *)
(* edited, with a customization that predefines the required eventId of    *)
(* getEvent, globally or for that tool, or predefines only a limit.        *)
(***************************************************************************)
Val_e1 == Str(<<"e", "1">>)

PredefinedCustomizations ==
    {MakeCustomization(Absent, Obj(<< <<"global", Obj(<< <<"eventId", Val_e1>> >>)>> >>),
                       Absent, FALSE),
     MakeCustomization(Absent,
                       Obj(<< <<"endpoints",
                               Obj(<< <<"getEvent", Obj(<< <<"eventId", Val_e1>> >>)>> >>)>> >>),
                       Absent, FALSE),
     MakeCustomization(Absent, LimitTen, Absent, FALSE)}

InitPredefined ==
    /\ IdleName
    /\ IdleHash
    /\ IdleReq
    /\ IdleExtra
    /\ definitionFile = MuseumApi
    /\ customFile \in PredefinedCustomizations
    /\ config \in MainConfigs
    /\ cacheFiles = {}
    /\ loadedDefinitions = EmptyObject
    /\ lastEnrich = NoEnrich
    /\ lastCall = NoCall
    /\ edits = 0

NextPredefined ==
    \/ GetAvailableTools
    \/ ExecuteTool
    \/ ReloadDefinitions

SpecPredefined == InitPredefined /\ [][NextPredefined]_vars

(***************************************************************************)
(* SpecAuth: the authentication handler and the service's                  *)
(* applyAuthentication applied to one request.                             *)
(***************************************************************************)
\* an operation with a cookie parameter
SessionOp ==
    [path |-> MuseumHoursPath, method |-> GetMethod, operationId |-> "getSession",
     parameters |-> <<[name |-> "session", in |-> "cookie", required |-> FALSE],
                      QueryParam("page")>>,
     requestBody |-> NoRequestBody]

AuthCalls ==
    {[op |-> MuseumHoursOp, args |-> EmptyObject],
     [op |-> SessionOp, args |-> [k \in {"session"} |-> Val_a_b]],
     [op |-> SessionOp, args |-> [k \in {"session", "page"} |-> Val_a_b]]}

AuthTypes == {"basic", "bearer", "apiKey", "oauth2", "openIdConnect", "unknown", "digest"}

\* credentials: a record of strings, some of them empty
Credentials(names, value) == [k \in names |-> value \o k]

AuthCredentials ==
    {EmptyObject,
     Credentials({"username", "password"}, "t-"),
     Credentials({"username"}, "t-"),
     Credentials({"password"}, "t-"),
     [k \in {"username", "password"} |-> IF k = "password" THEN "" ELSE "t-username"],
     Credentials({"token"}, "t-"),
     [k \in {"token"} |-> ""],
     Credentials({"key"}, "t-"),
     [k \in {"key", "in"} |-> IF k = "in" THEN "query" ELSE "t-key"],
     [k \in {"key", "in"} |-> IF k = "in" THEN "cookie" ELSE "t-key"],
     [k \in {"key", "in"} |-> IF k = "in" THEN "body" ELSE "t-key"],
     [k \in {"key", "name"} |-> IF k = "name" THEN "X-Key" ELSE "t-key"],
     [k \in {"in"} |-> "query"],
     Credentials({"username", "password", "token", "key"}, "t-")}

DefaultCredentials ==
    {EmptyObject,
     Credentials({"username", "password"}, "d-"),
     Credentials({"token"}, "d-"),
     Credentials({"key"}, "d-"),
     Credentials({"username", "token", "key"}, "d-"),
     Credentials({"username", "password", "token", "key"}, "d-")}

SecuritySchemes ==
    [type : {"http"}, scheme : {"basic", "bearer", "digest"}, name : {""}, in : {""}]
    \cup [type : {"apiKey"}, scheme : {""}, name : {"", "X-Key"},
          in : {"", "header", "query", "cookie", "body"}]
    \cup [type : {"oauth2", "openIdConnect", "mutualTLS"}, scheme : {""}, name : {""},
          in : {""}]

InitAuth ==
    /\ IdleMore
    /\ IdleName
    /\ IdleHash
    /\ IdleReq
    /\ IdleMain
    /\ IdleLoad
    /\ IdleConc
    /\ auIn \in [call : AuthCalls, type : AuthTypes, credentials : AuthCredentials,
                  defaults : DefaultCredentials]
    /\ auOut = NoOutput

\* the request executeTool hands to authentication
AuthRequest(call) ==
    buildHttpRequest(ToolOf(call.op, call.op.operationId, EmptyObject, NoAuthentication,
                            ServerUrl),
                     call.args)

ApplyAuth ==
    /\ auOut = NoOutput
    /\ \E request \in {AuthRequest(auIn.call)} :
          \E result \in {applyAuth(request, [type |-> auIn.type,
                                             credentials |-> auIn.credentials])} :
             auOut' = [op |-> "applyAuth", request |-> request, result |-> result,
                       input |-> InputAfterApplyAuth(request, result.request)]
    /\ UNCHANGED <<auIn, nameVars, hashVars, reqVars, mainVars, loadVars, concVars, moreVars>>

ApplySecurityScheme ==
    /\ auOut = NoOutput
    /\ \E request \in {AuthRequest(auIn.call)}, scheme \in SecuritySchemes :
          auOut' = [op |-> "applySecurityScheme", request |-> request, scheme |-> scheme,
                    result |-> applySecurityScheme(request, scheme, auIn.credentials)]
    /\ UNCHANGED <<auIn, nameVars, hashVars, reqVars, mainVars, loadVars, concVars, moreVars>>

\* the tool's authentication is what extractAuthenticationConfig makes of an
\* override's credentials, or none
ToolAuthentications(credentials) ==
    {NoAuthentication, [type |-> InferAuthType(credentials), credentials |-> credentials]}

ApplyAuthentication ==
    /\ auOut = NoOutput
    /\ \E authentication \in ToolAuthentications(auIn.credentials) :
          \E tool \in {ToolOf(auIn.call.op, auIn.call.op.operationId, EmptyObject,
                               authentication, ServerUrl)} :
             \E request \in {buildHttpRequest(tool, auIn.call.args)} :
                auOut' = [op |-> "applyAuthentication", request |-> request,
                          tool |-> tool,
                          result |-> applyAuthentication(
                                        [cacheDirectory |-> FALSE,
                                         forceRegeneration |-> FALSE,
                                         defaultCredentials |-> auIn.defaults],
                                        request, tool)]
    /\ UNCHANGED <<auIn, nameVars, hashVars, reqVars, mainVars, loadVars, concVars, moreVars>>

NextAuth ==
    \/ ApplyAuth
    \/ ApplySecurityScheme
    \/ ApplyAuthentication

SpecAuth == InitAuth /\ [][NextAuth]_vars

(***************************************************************************)
(* SpecLoad: the service over a directory of several files, some of which  *)
(* cannot be read or parsed, with the clock of metadata.generatedAt and a  *)
(* cache directory whose files can be unreadable, broken or unwritable.    *)
(* The directory does not change; the cache directory does.                *)
(***************************************************************************)
\* a file: missing from the directory, unreadable, with content that does not
\* parse, or with content
Unreadable == [file |-> "unreadable"]
Invalid == [file |-> "invalid"]
FileOf(content) == [file |-> "ok", content |-> content]

\* what stands for the result of a parser or loader that threw
Throws == [thrown |-> TRUE]
CustomizationThrows == <<"throws">>

\* a file name: stem, ".custom" or not, extension
FileName(stem, custom, ext) == [stem |-> stem, custom |-> custom, ext |-> ext]

MuseumFileName == FileName("museum-api", FALSE, "yaml")
EventsFileName == FileName("events", FALSE, "json")

\* fs.readdir: the names of the directory, in the order of the listing
DirectoryListing ==
    <<EventsFileName, FileName("museum-api", TRUE, "yaml"), MuseumFileName,
      FileName("notes", FALSE, "txt")>>

\* lines 95-97: /\.(yaml|yml|json)$/.test(file) && !file.includes('.custom.')
isDefinitionFile(name) == name.ext \in {"yaml", "yml", "json"} /\ ~name.custom

\* part_005 lines 36-38: <basename without extension>.custom.yaml
customizationPath(name) == FileName(name.stem, TRUE, "yaml")

MuseumSource ==
    [hash |-> "sha-of-museum", servers |-> <<ServerUrl>>, paths |-> <<MuseumHoursOp>>]

EventsSource ==
    [hash |-> "sha-of-events", servers |-> <<ServerUrl>>, paths |-> <<CreateEventOp>>]

\* openapi-parser.ts lines 10-39: the ParsedDefinition of a file, or a throw
parseFromFile(dir, name) ==
    IF name \in DOMAIN dir /\ dir[name].file = "ok" THEN dir[name].content ELSE Throws

\* part_005 lines 8-32: {} when there is no such file, a throw when the file
\* cannot be read or parsed
loadFromFile(dir, name) ==
    IF name \notin DOMAIN dir THEN Obj(<<>>)
    ELSE IF dir[name].file = "ok" THEN dir[name].content
    ELSE CustomizationThrows

loadForDefinition(dir, name) == loadFromFile(dir, customizationPath(name))

\* the files of a directory: each definition file readable, unreadable or
\* unparsable, the customization of museum-api.yaml absent, good or unparsable
LoadDirectoryFiles ==
    {[n \in {EventsFileName, MuseumFileName, FileName("notes", FALSE, "txt")} |->
         IF n = EventsFileName THEN e ELSE IF n = MuseumFileName THEN m
         ELSE FileOf("notes")] : e \in {FileOf(EventsSource), Unreadable, Invalid},
                                 m \in {FileOf(MuseumSource), Unreadable, Invalid}}
    \cup
    {[n \in {EventsFileName, MuseumFileName, FileName("museum-api", TRUE, "yaml")} |->
         IF n = EventsFileName THEN e ELSE IF n = MuseumFileName THEN m ELSE c] :
            e \in {FileOf(EventsSource), Unreadable, Invalid},
            m \in {FileOf(MuseumSource), Unreadable, Invalid},
            c \in {FileOf(MuseumCustomization), Invalid}}

\* the directories; readdir fails on one that is not readable
LoadDirectories ==
    [readable : {TRUE}, files : LoadDirectoryFiles]
    \cup [readable : {FALSE}, files : {EmptyObject}]

\* the names readdir returns for a directory
Listing(dir) == SelectSeq(DirectoryListing, LAMBDA n : n \in DOMAIN dir)

\* part_007 lines 109-119: the definition generated at a time
generateEnrichedDefinitionAt(parsed, customization, sourceFile, hash, now) ==
    [generateEnrichedDefinition(parsed, customization, sourceFile, hash)
        EXCEPT !.metadata = [sourceFile |-> sourceFile, generatedAt |-> now]]

\* the cache directory: disk is "ok", "readonly" (mkdir or writeFile fails) or
\* "full" (writeFile fails and leaves a truncated file); files maps a hash to the
\* file <hash>.enriched.json
NoCached == [absent |-> "cached"]

\* a JSON value that is an object without metadata
NoMetadataValue == [hash |-> "?", tools |-> <<>>]

\* a validation that accepts every JSON value
isCacheValid_Always(enriched) == TRUE

\* part_007 lines 202-221; the source file was parsed just before and exists
isCacheValid(enriched) == "metadata" \in DOMAIN enriched

\* part_007 lines 176-200: the definition read from the cache, or null
readCache(cache, hash) ==
    IF hash \notin DOMAIN cache.files THEN NoCached
    ELSE IF cache.files[hash].file # "ok" THEN NoCached
    ELSE IF isCacheValid(cache.files[hash].content) THEN cache.files[hash].content
    ELSE NoCached

\* part_007 lines 223-241: the cache directory after saveToCache
writeCache(cache, enriched) ==
    IF cache.disk = "readonly" THEN cache
    ELSE [cache EXCEPT !.files =
             Spread(cache.files,
                    enriched.hash :> (IF cache.disk = "full" THEN Invalid
                                      ELSE FileOf(enriched)))]

\* part_007 lines 40-52
GeneratedAt(libraryConfig, cache, enriched) ==
    [enriched |-> enriched,
     cache |-> IF libraryConfig.cacheDirectory THEN writeCache(cache, enriched) ELSE cache,
     fromCache |-> FALSE]

\* part_007 lines 30-52, once the cache was looked at
EnrichWithCached(libraryConfig, cache, parsed, customization, sourceFile, hash, now, cached) ==
    IF cached # NoCached
    THEN [enriched |-> cached, cache |-> cache, fromCache |-> TRUE]
    ELSE GeneratedAt(libraryConfig, cache,
                     generateEnrichedDefinitionAt(parsed, customization, sourceFile,
                                                  hash, now))

\* part_007 lines 26-35, once the combined hash is known
EnrichWithHashAt(libraryConfig, cache, parsed, customization, sourceFile, hash, now) ==
    EnrichWithCached(libraryConfig, cache, parsed, customization, sourceFile, hash, now,
                     IF libraryConfig.cacheDirectory /\ ~libraryConfig.forceRegeneration
                     THEN readCache(cache, hash) ELSE NoCached)

\* enrichDefinition with the clock and the files of the cache directory
enrichDefinitionAt(libraryConfig, cache, parsed, customization, sourceFile, now) ==
    EnrichWithHashAt(libraryConfig, cache, parsed, customization, sourceFile,
                     generateCombinedHash(parsed, customization), now)

\* Map.set: the entry replaced in place, or added at the end
RECURSIVE MapSet(_, _, _)
MapSet(entries, key, value) ==
    IF entries = <<>> THEN <<[key |-> key, value |-> value]>>
    ELSE IF Head(entries).key = key
    THEN <<[key |-> key, value |-> value]>> \o Tail(entries)
    ELSE <<Head(entries)>> \o MapSet(Tail(entries), key, value)

MapKeys(entries) == {entries[i].key : i \in 1..Len(entries)}

MapGet(entries, key) == (CHOOSE i \in 1..Len(entries) : entries[i].key = key)

\* the service during a load: loadedDefinitions, the cache directory, how often
\* the parser was invoked for each file, the enrichDefinition calls of the load
\* and whether the load threw
ServiceAt(loaded, cache, parses, enriches, thrown) ==
    [loaded |-> loaded, cache |-> cache, parses |-> parses, enriches |-> enriches,
     thrown |-> thrown]

\* lines 111-115: the parser is invoked
Parsed(st, name) ==
    [st EXCEPT !.parses = Spread(st.parses,
                                 name :> (IF name \in DOMAIN st.parses
                                          THEN st.parses[name] + 1 ELSE 1))]

\* lines 125-132: the enriched definition is stored
Stored(st, name, cacheBefore, parsed, customization, now, r) ==
    [st EXCEPT !.loaded = MapSet(st.loaded, name, r.enriched),
               !.cache = r.cache,
               !.enriches = Spread(st.enriches,
                                   name :> [cache |-> cacheBefore, parsed |-> parsed,
                                            customization |-> customization,
                                            now |-> now, returned |-> r])]

\* lines 117-132, once the file is parsed
LoadParsed(st, libraryConfig, dir, name, now, parsed, customization) ==
    IF customization = CustomizationThrows THEN st
    ELSE Stored(st, name, st.cache, parsed, customization, now,
                enrichDefinitionAt(libraryConfig, st.cache, parsed, customization, name,
                                   now))

\* a loadDefinition whose catch throws again
loadDefinition_Rethrows(st, libraryConfig, dir, name, now) ==
    IF \/ parseFromFile(dir, name) = Throws
       \/ loadForDefinition(dir, name) = CustomizationThrows
    THEN [Parsed(st, name) EXCEPT !.thrown = TRUE]
    ELSE LoadParsed(Parsed(st, name), libraryConfig, dir, name, now,
                    parseFromFile(dir, name), loadForDefinition(dir, name))

\* lines 111-138: a file that cannot be loaded changes nothing
loadDefinition(st, libraryConfig, dir, name, now) ==
    IF parseFromFile(dir, name) = Throws THEN Parsed(st, name)
    ELSE LoadParsed(Parsed(st, name), libraryConfig, dir, name, now,
                    parseFromFile(dir, name), loadForDefinition(dir, name))

\* lines 99-101: the definition files one after the other; a throw ends the loop
RECURSIVE LoadFiles(_, _, _, _, _)
LoadFiles(st, libraryConfig, dir, names, now) ==
    IF names = <<>> \/ st.thrown THEN st
    ELSE LoadFiles(loadDefinition(st, libraryConfig, dir, Head(names), now),
                   libraryConfig, dir, Tail(names), now)

\* a load that forgets what was loaded before
loadAllDefinitionsAt_ClearsFirst(st, libraryConfig, dir, now) ==
    IF ~dir.readable THEN [st EXCEPT !.thrown = TRUE, !.loaded = <<>>]
    ELSE LoadFiles([st EXCEPT !.loaded = <<>>], libraryConfig, dir.files,
                   SelectSeq(Listing(dir.files), isDefinitionFile), now)

\* lines 83-109: readdir, the filter and the loop; readdir's failure is thrown
loadAllDefinitionsAt(st, libraryConfig, dir, now) ==
    IF ~dir.readable THEN [st EXCEPT !.thrown = TRUE]
    ELSE LoadFiles(st, libraryConfig, dir.files,
                   SelectSeq(Listing(dir.files), isDefinitionFile), now)

\* lines 36-48: the tools of the loaded definitions, in the order of the map
RECURSIVE ToolsOfMap(_)
ToolsOfMap(entries) ==
    IF entries = <<>> THEN <<>>
    ELSE LET tools == Head(entries).value.tools
         IN [i \in 1..Len(tools) |-> MCPToolOf(tools[i])] \o ToolsOfMap(Tail(entries))

LoadConfigs ==
    {[cacheDirectory |-> TRUE, forceRegeneration |-> FALSE],
     [cacheDirectory |-> TRUE, forceRegeneration |-> TRUE],
     [cacheDirectory |-> FALSE, forceRegeneration |-> FALSE]}

CacheDisks == {"ok", "readonly", "full"}

NoLoad == [absent |-> "load"]

InitLoad ==
    /\ IdleMore
    /\ IdleName
    /\ IdleHash
    /\ IdleReq
    /\ IdleMain
    /\ IdleAuth
    /\ IdleConc
    /\ ldDir \in LoadDirectories
    /\ ldConfig \in LoadConfigs
    /\ ldCache \in [disk : CacheDisks, files : {EmptyObject}]
    /\ ldService = ServiceAt(<<>>, ldCache, EmptyObject, EmptyObject, FALSE)
    /\ ldClock = 0
    /\ ldCalls = [loads |-> 0, cacheEdits |-> 0]
    /\ ldFirst = EmptyObject
    /\ ldLast = NoLoad

\* the first definition stored for each file
FirstStored(first, loaded) ==
    [n \in DOMAIN first \cup MapKeys(loaded) |->
        IF n \in DOMAIN first THEN first[n] ELSE loaded[MapGet(loaded, n)].value]

\* a call that loads: the service and the cache directory afterwards
AfterLoad(kind, now, st) ==
    /\ ldService' = st
    /\ ldCache' = st.cache
    /\ ldClock' = now
    /\ ldCalls' = [ldCalls EXCEPT !.loads = @ + 1]
    /\ ldFirst' = FirstStored(ldFirst, st.loaded)
    /\ ldLast' = [kind |-> kind, thrown |-> st.thrown,
                  tools |-> IF st.thrown THEN <<>> ELSE ToolsOfMap(st.loaded)]
    /\ UNCHANGED <<ldDir, ldConfig, nameVars, hashVars, reqVars, mainVars, authVars,
                   concVars, moreVars>>

\* what a call starts from: the map as it is, nothing thrown, nothing enriched
BeforeLoad(loaded) == ServiceAt(loaded, ldCache, ldService.parses, EmptyObject, FALSE)

LoadGetAvailableTools ==
    /\ ldCalls.loads < MaxLoads
    /\ \E now \in ldClock..MaxClock :
          \E st \in {loadAllDefinitionsAt(BeforeLoad(ldService.loaded), ldConfig, ldDir,
                                          now)} :
             AfterLoad("getAvailableTools", now, st)

LoadReloadDefinitions ==
    /\ ldCalls.loads < MaxLoads
    /\ \E now \in ldClock..MaxClock :
          \E st \in {loadAllDefinitionsAt(BeforeLoad(<<>>), ldConfig, ldDir, now)} :
             AfterLoad("reloadDefinitions", now, st)

\* what a file of the cache directory can become behind the service's back
BrokenCacheFiles == {Unreadable, Invalid, FileOf(NoMetadataValue)}

BreakCacheFile ==
    /\ ldCalls.cacheEdits < MaxCacheEdits
    /\ \E hash \in DOMAIN ldCache.files, broken \in BrokenCacheFiles :
          /\ ldCache.files[hash] # broken
          /\ ldCache' = [ldCache EXCEPT !.files[hash] = broken]
    /\ ldCalls' = [ldCalls EXCEPT !.cacheEdits = @ + 1]
    /\ UNCHANGED <<ldDir, ldConfig, ldService, ldClock, ldFirst, ldLast,
                   nameVars, hashVars, reqVars, mainVars, authVars, concVars, moreVars>>

NextLoad ==
    \/ LoadGetAvailableTools
    \/ LoadReloadDefinitions
    \/ BreakCacheFile

SpecLoad == InitLoad /\ [][NextLoad]_vars

(***************************************************************************)
(* SpecConc: callers of one service whose calls overlap. A call runs until *)
(* it awaits the file system; the load of one file ends with the set() of  *)
(* its definition, and what follows the last file runs without awaiting.   *)
(* The directory holds two valid definition files and does not change;     *)
(* there is no cache directory.                                            *)
(***************************************************************************)
Callers == {"c1", "c2"}

ConcFiles ==
    [n \in {EventsFileName, MuseumFileName} |->
        IF n = EventsFileName THEN FileOf(EventsSource) ELSE FileOf(MuseumSource)]

ConcConfig == [cacheDirectory |-> FALSE, forceRegeneration |-> FALSE]

ConcToolNames == {"createEvent", "getMuseumHours", "no-such-tool"}

IdleCaller == [pc |-> "idle"]

InitConc ==
    /\ IdleMore
    /\ IdleName
    /\ IdleHash
    /\ IdleReq
    /\ IdleMain
    /\ IdleAuth
    /\ IdleLoad
    /\ ccLoaded = <<>>
    /\ ccCallers = [c \in Callers |-> IdleCaller]
    /\ ccCalls = 0

\* the call starts: reloadDefinitions clears the map, then every call is in
\* loadAllDefinitions and awaits readdir
StartCall(c, op, toolName) ==
    /\ ccCallers[c].pc = "idle"
    /\ ccCalls < MaxConcCalls
    /\ ccCalls' = ccCalls + 1
    /\ ccLoaded' = IF op = "reloadDefinitions" THEN <<>> ELSE ccLoaded
    /\ ccCallers' = [ccCallers EXCEPT ![c] =
                        [pc |-> "loading", op |-> op, toolName |-> toolName,
                         files |-> SelectSeq(Listing(ConcFiles), isDefinitionFile)]]
    /\ UNCHANGED <<nameVars, hashVars, reqVars, mainVars, authVars, loadVars, moreVars>>

\* lines 143-150: the first tool of that name in the map
FindInMap(entries, toolName) ==
    LET tools == ToolsOfMap(entries)
    IN IF \E i \in 1..Len(tools) : tools[i].name = toolName THEN "found" ELSE "missing_tool"

\* what the call does once loadAllDefinitions has returned
Finished(caller, loaded) ==
    [pc |-> "done", op |-> caller.op, toolName |-> caller.toolName,
     result |-> IF caller.op = "getAvailableTools" THEN ToolsOfMap(loaded)
                ELSE IF caller.op = "executeTool"
                THEN <<FindInMap(loaded, caller.toolName)>>
                ELSE <<>>]

\* the load of the caller's next file ends: its definition is stored; after the
\* last file the call goes on to its end
LoadNextFile(c) ==
    /\ ccCallers[c].pc = "loading"
    /\ \E st \in {loadDefinition(ServiceAt(ccLoaded, [disk |-> "ok", files |-> EmptyObject],
                                           EmptyObject, EmptyObject, FALSE),
                                 ConcConfig, ConcFiles, Head(ccCallers[c].files), 0)} :
          /\ ccLoaded' = st.loaded
          /\ ccCallers' = [ccCallers EXCEPT ![c] =
                              IF Tail(ccCallers[c].files) = <<>>
                              THEN Finished(ccCallers[c], st.loaded)
                              ELSE [ccCallers[c] EXCEPT !.files = Tail(@)]]
    /\ UNCHANGED <<ccCalls, nameVars, hashVars, reqVars, mainVars, authVars, loadVars, moreVars>>

\* the caller takes the result and can call again
Return(c) ==
    /\ ccCallers[c].pc = "done"
    /\ ccCallers' = [ccCallers EXCEPT ![c] = IdleCaller]
    /\ UNCHANGED <<ccLoaded, ccCalls, nameVars, hashVars, reqVars, mainVars, authVars,
                   loadVars, moreVars>>

NextConc ==
    \/ \E c \in Callers : StartCall(c, "getAvailableTools", "")
    \/ \E c \in Callers, toolName \in ConcToolNames : StartCall(c, "executeTool", toolName)
    \/ \E c \in Callers : StartCall(c, "reloadDefinitions", "")
    \/ \E c \in Callers : LoadNextFile(c)
    \/ \E c \in Callers : Return(c)

SpecConc == InitConc /\ [][NextConc]_vars

(***************************************************************************)
(* SpecDir: the service of SpecLoad over a directory whose files change    *)
(* between calls: a definition file or the customization of museum-api     *)
(* is deleted, becomes unparsable, or is written again; the                *)
(* directory itself can become unreadable. The cache directory works.      *)
(***************************************************************************)
MuseumCustomFileName == FileName("museum-api", TRUE, "yaml")

\* what a file can become: a file of the directory, or Deleted
Deleted == [file |-> "deleted"]

FileContents(name) ==
    IF name = EventsFileName THEN {FileOf(EventsSource), Invalid, Deleted}
    ELSE IF name = MuseumFileName THEN {FileOf(MuseumSource), Invalid, Deleted}
    ELSE {FileOf(MuseumCustomization), Invalid, Deleted}

\* the directory with the file written or deleted
WithFile(files, name, content) ==
    IF content = Deleted THEN [n \in DOMAIN files \ {name} |-> files[n]]
    ELSE Spread(files, name :> content)

InitDir ==
    /\ IdleMore
    /\ IdleName
    /\ IdleHash
    /\ IdleReq
    /\ IdleMain
    /\ IdleAuth
    /\ IdleConc
    /\ ldDir = [readable |-> TRUE, files |-> ConcFiles]
    /\ ldConfig \in LoadConfigs
    /\ ldCache = [disk |-> "ok", files |-> EmptyObject]
    /\ ldService = ServiceAt(<<>>, ldCache, EmptyObject, EmptyObject, FALSE)
    /\ ldClock = 0
    /\ ldCalls = [loads |-> 0, cacheEdits |-> 0, dirEdits |-> 0]
    /\ ldFirst = EmptyObject
    /\ ldLast = NoLoad

\* the directory changes behind the service's back
DirectoryChanged(dir) ==
    /\ dir # ldDir
    /\ ldDir' = dir
    /\ ldCalls' = [ldCalls EXCEPT !.dirEdits = @ + 1]
    /\ UNCHANGED <<ldConfig, ldCache, ldService, ldClock, ldFirst, ldLast,
                   nameVars, hashVars, reqVars, mainVars, authVars, concVars, moreVars>>

ChangeFile ==
    /\ ldCalls.dirEdits < MaxDirEdits
    /\ \E name \in {EventsFileName, MuseumFileName, MuseumCustomFileName} :
          \E content \in FileContents(name) :
             DirectoryChanged([ldDir EXCEPT
                                  !.files = WithFile(ldDir.files, name, content)])

ChangeDirectory ==
    /\ ldCalls.dirEdits < MaxDirEdits
    /\ DirectoryChanged([ldDir EXCEPT !.readable = ~ldDir.readable])

NextDir ==
    \/ LoadGetAvailableTools
    \/ LoadReloadDefinitions
    \/ ChangeFile
    \/ ChangeDirectory

SpecDir == InitDir /\ [][NextDir]_vars

(***************************************************************************)
(* SpecCli: the command line. cli.ts turns its arguments into environment  *)
(* variables and spawns the server with them; the server reads its         *)
(* LibraryConfig from the environment and its service loads the            *)
(* definitions directory. Every definitions directory holds the same two   *)
(* valid files; every cache directory starts empty.                        *)
(***************************************************************************)
CliTokens == {"--definitions", "--cache-dir", "--no-cache", "--debug", "./api"}

\* the command lines of at most n arguments
RECURSIVE ArgLists(_)
ArgLists(n) ==
    IF n = 0 THEN {<<>>}
    ELSE ArgLists(n - 1) \cup {Append(a, t) : a \in ArgLists(n - 1), t \in CliTokens}

CliEnvironments ==
    {EmptyObject, "OPENAPI_CACHE_DIR" :> "./env-cache", "OPENAPI_FORCE_REGEN" :> "true"}

DefaultDefinitionsDirectory == "./definitions"

DefaultCacheDirectory == "./definitions/.cache"

CacheDirectories == CliTokens \cup {DefaultCacheDirectory, "./env-cache"}

\* cli.ts lines 63-68, env.X = args[++i]: past the last argument the value is
\* undefined, and spawn leaves a variable with an undefined value out
SetEnv(env, name, args, i) ==
    IF i <= Len(args) THEN Spread(env, name :> args[i])
    ELSE [k \in DOMAIN env \ {name} |-> env[k]]

\* cli.ts lines 61-81: the loop over the arguments, from argument i on
RECURSIVE ParseCommandLineOptions(_, _, _)
ParseCommandLineOptions(args, i, env) ==
    IF i > Len(args) THEN env
    ELSE IF args[i] = "--definitions"
    THEN ParseCommandLineOptions(args, i + 2,
                                 SetEnv(env, "OPENAPI_DEFINITIONS_DIR", args, i + 1))
    ELSE IF args[i] = "--cache-dir"
    THEN ParseCommandLineOptions(args, i + 2,
                                 SetEnv(env, "OPENAPI_CACHE_DIR", args, i + 1))
    ELSE IF args[i] = "--no-cache"
    THEN ParseCommandLineOptions(args, i + 1, Spread(env, "OPENAPI_CACHE_DIR" :> ""))
    ELSE IF args[i] = "--debug"
    THEN ParseCommandLineOptions(args, i + 1, Spread(env, "DEBUG" :> "true"))
    ELSE IF args[i] \in {"--port", "--mount-path"}
    THEN ParseCommandLineOptions(args, i + 2, env)
    ELSE ParseCommandLineOptions(args, i + 1, env)

\* process.env.NAME || fallback: an unset and an empty variable are both falsy
EnvOr(env, name, fallback) ==
    IF name \in DOMAIN env /\ env[name] # "" THEN env[name] ELSE fallback

\* part_006 lines 14-17: the LibraryConfig of the server
ServerConfig(env) ==
    [definitionsDirectory |->
         EnvOr(env, "OPENAPI_DEFINITIONS_DIR", DefaultDefinitionsDirectory),
     cacheDirectory |-> EnvOr(env, "OPENAPI_CACHE_DIR", DefaultCacheDirectory),
     forceRegeneration |->
         "OPENAPI_FORCE_REGEN" \in DOMAIN env /\ env["OPENAPI_FORCE_REGEN"] = "true"]

\* the DefinitionEnricher of the service: caching is on when the cache
\* directory is a truthy string
EnricherConfig(serverConfig) ==
    [cacheDirectory |-> serverConfig.cacheDirectory # "",
     forceRegeneration |-> serverConfig.forceRegeneration]

NoServer == [absent |-> "server"]

InitCli ==
    /\ IdleName
    /\ IdleHash
    /\ IdleReq
    /\ IdleMain
    /\ IdleAuth
    /\ IdleLoad
    /\ IdleConc
    /\ IdleSchema
    /\ IdleParam
    /\ IdleOverride
    /\ clArgs \in ArgLists(MaxArgs)
    /\ clEnv \in CliEnvironments
    /\ clServer = NoServer
    /\ clDisk = [d \in CacheDirectories |-> EmptyObject]
    /\ clLast = [calls |-> 0, enriches |-> EmptyObject, before |-> EmptyObject]

\* cli.ts lines 58-88: the environment is built and the server spawned with it;
\* part_006 lines 14-32 and the constructor of MCPProxyService
CliStart ==
    /\ clServer = NoServer
    /\ \E env \in {ParseCommandLineOptions(clArgs, 1, clEnv)} :
          clServer' = [env |-> env, config |-> ServerConfig(env), loaded |-> <<>>]
    /\ UNCHANGED <<clArgs, clEnv, clDisk, clLast, nameVars, hashVars, reqVars, mainVars,
                   authVars, loadVars, concVars, schemaVars, paramVars, overrideVars>>

\* getAvailableTools of the server's service: the definitions are loaded, with
\* the cache directory of the config
CliGetAvailableTools ==
    /\ clServer # NoServer
    /\ clLast.calls < MaxCliCalls
    /\ \E st \in {loadAllDefinitionsAt(
                      ServiceAt(clServer.loaded,
                                [disk |-> "ok",
                                 files |-> clDisk[clServer.config.cacheDirectory]],
                                EmptyObject, EmptyObject, FALSE),
                      EnricherConfig(clServer.config),
                      [readable |-> TRUE, files |-> ConcFiles], 0)} :
          /\ clServer' = [clServer EXCEPT !.loaded = st.loaded]
          /\ clDisk' = [clDisk EXCEPT ![clServer.config.cacheDirectory] = st.cache.files]
          /\ clLast' = [calls |-> clLast.calls + 1, enriches |-> st.enriches,
                        before |-> clDisk]
    /\ UNCHANGED <<clArgs, clEnv, nameVars, hashVars, reqVars, mainVars, authVars,
                   loadVars, concVars, schemaVars, paramVars, overrideVars>>

NextCli ==
    \/ CliStart
    \/ CliGetAvailableTools

SpecCli == InitCli /\ [][NextCli]_vars

(***************************************************************************)
(* SpecSchema: the translation of one parameter's OpenAPI schema. A schema *)
(* is a JSON object of keywords; the strings of its keywords are only      *)
(* compared, so they are TLA+ strings.                                     *)
(***************************************************************************)
Bool(b) == <<"bool", b>>

\* openApiSchema[k]: undefined for a keyword the schema does not have
Keyword(schema, k) == IF HasKey(schema, k) THEN Get(schema, k) ELSE Undefined

\* JavaScript truthiness of a keyword's value
TruthyKeyword(v) ==
    /\ v # Undefined
    /\ v # Null
    /\ v[1] = "str" => v[2] # ""
    /\ v[1] = "num" => v[2] # 0
    /\ v[1] = "bool" => v[2]

\* if (openApiSchema.k) jsonSchema.k = openApiSchema.k
CopyTruthy(schema, k) ==
    IF TruthyKeyword(Keyword(schema, k)) THEN << <<k, Get(schema, k)>> >> ELSE <<>>

\* if (openApiSchema.k !== undefined) jsonSchema.k = openApiSchema.k
CopyDefined(schema, k) ==
    IF Keyword(schema, k) # Undefined THEN << <<k, Get(schema, k)>> >> ELSE <<>>

\* schema-converter.ts lines 92-161: the entries of jsonSchema in the order of
\* the assignments; a keyword that no line names is not assigned
RECURSIVE convertSchemaKeywords(_)
convertSchemaKeywords(openApiSchema) ==
    IF ~TruthyKeyword(openApiSchema) THEN Obj(<<>>)
    ELSE Obj(
        << <<"type", Keyword(openApiSchema, "type")>> >>
        \o CopyTruthy(openApiSchema, "format")
        \o CopyTruthy(openApiSchema, "description")
        \o CopyDefined(openApiSchema, "example")
        \o CopyDefined(openApiSchema, "default")
        \o CopyTruthy(openApiSchema, "enum")
        \o CopyTruthy(openApiSchema, "pattern")
        \o CopyDefined(openApiSchema, "minimum")
        \o CopyDefined(openApiSchema, "maximum")
        \o CopyDefined(openApiSchema, "minLength")
        \o CopyDefined(openApiSchema, "maxLength")
        \o CopyDefined(openApiSchema, "minItems")
        \o CopyDefined(openApiSchema, "maxItems")
        \o (IF /\ Keyword(openApiSchema, "type") = Str("array")
               /\ TruthyKeyword(Keyword(openApiSchema, "items"))
            THEN << <<"items", convertSchemaKeywords(Get(openApiSchema, "items"))>> >>
            ELSE <<>>)
        \o (IF Keyword(openApiSchema, "type") # Str("object") THEN <<>>
            ELSE (IF TruthyKeyword(Keyword(openApiSchema, "properties"))
                  THEN LET entries == Get(openApiSchema, "properties")[2]
                       IN << <<"properties",
                                Obj([i \in 1..Len(entries) |->
                                        <<entries[i][1],
                                          convertSchemaKeywords(entries[i][2])>>])>> >>
                  ELSE <<>>)
                 \o CopyTruthy(openApiSchema, "required")
                 \o (IF Keyword(openApiSchema, "additionalProperties") = Undefined
                     THEN <<>>
                     ELSE IF Get(openApiSchema, "additionalProperties")[1] = "bool"
                     THEN << <<"additionalProperties",
                               Get(openApiSchema, "additionalProperties")>> >>
                     ELSE << <<"additionalProperties",
                               convertSchemaKeywords(
                                   Get(openApiSchema, "additionalProperties"))>> >>))
        \o (IF TruthyKeyword(Keyword(openApiSchema, "allOf"))
            THEN LET members == Get(openApiSchema, "allOf")[2]
                 IN << <<"allOf", Arr([i \in 1..Len(members) |->
                                          convertSchemaKeywords(members[i])])>> >>
            ELSE <<>>)
        \o (IF TruthyKeyword(Keyword(openApiSchema, "oneOf"))
            THEN LET members == Get(openApiSchema, "oneOf")[2]
                 IN << <<"oneOf", Arr([i \in 1..Len(members) |->
                                          convertSchemaKeywords(members[i])])>> >>
            ELSE <<>>)
        \o (IF TruthyKeyword(Keyword(openApiSchema, "anyOf"))
            THEN LET members == Get(openApiSchema, "anyOf")[2]
                 IN << <<"anyOf", Arr([i \in 1..Len(members) |->
                                          convertSchemaKeywords(members[i])])>> >>
            ELSE <<>>))

\* { ...o, k: v }: the key keeps its place when o has it, and comes last otherwise
SetKey(o, k, v) ==
    IF HasKey(o, k)
    THEN Obj([i \in 1..Len(o[2]) |-> IF o[2][i][1] = k THEN <<k, v>> ELSE o[2][i]])
    ELSE Obj(Append(o[2], <<k, v>>))

\* schema-converter.ts lines 32-39: schema.properties[param.name]
ParameterProperty(param) ==
    SetKey(convertSchemaKeywords(param.schema), "description", param.description)

StringLeaf == Obj(<< <<"type", Str("string")>> >>)

SchemaLeaves ==
    {StringLeaf,
     Obj(<< <<"type", Str("string")>>, <<"nullable", Bool(TRUE)>> >>),
     Obj(<< <<"type", Str("string")>>, <<"format", Str("date")>>,
            <<"title", Str("Day")>> >>)}

\* the schemas that have s one level down
SchemasAround(s) ==
    {Obj(<< <<"type", Str("array")>>, <<"items", s>> >>),
     Obj(<< <<"type", Str("array")>>, <<"items", s>>, <<"uniqueItems", Bool(TRUE)>> >>),
     Obj(<< <<"type", Str("object")>>, <<"properties", Obj(<< <<"p", s>> >>)>> >>),
     Obj(<< <<"type", Str("object")>>, <<"properties", Obj(<< <<"p", StringLeaf>> >>)>>,
            <<"additionalProperties", s>> >>),
     Obj(<< <<"type", Str("object")>>, <<"title", Str("Box")>>,
            <<"properties", Obj(<< <<"p", s>> >>)>>,
            <<"additionalProperties", Bool(FALSE)>> >>),
     Obj(<< <<"allOf", Arr(<<s>>)>> >>),
     Obj(<< <<"oneOf", Arr(<<s, StringLeaf>>)>> >>),
     Obj(<< <<"type", Str("object")>>, <<"anyOf", Arr(<<s>>)>> >>)}

\* the schemas nested at most n levels deep
RECURSIVE SchemasOfDepth(_)
SchemasOfDepth(n) ==
    IF n = 0 THEN SchemaLeaves
    ELSE SchemaLeaves \cup UNION {SchemasAround(s) : s \in SchemasOfDepth(n - 1)}

ParameterDescriptions == {Undefined, Str("a day")}

NoProperty == <<"none">>

InitSchema ==
    /\ IdleName
    /\ IdleHash
    /\ IdleReq
    /\ IdleMain
    /\ IdleAuth
    /\ IdleLoad
    /\ IdleConc
    /\ IdleCli
    /\ IdleParam
    /\ IdleOverride
    /\ scIn \in [name : {"day"}, description : ParameterDescriptions,
                 schema : SchemasOfDepth(MaxSchemaDepth), required : {FALSE}]
    /\ scOut = NoProperty

\* addParameterToSchema for the parameter
AddParameterToSchema ==
    /\ scOut = NoProperty
    /\ scOut' = ParameterProperty(scIn)
    /\ UNCHANGED <<scIn, nameVars, hashVars, reqVars, mainVars, authVars, loadVars,
                   concVars, cliVars, paramVars, overrideVars>>

NextSchema == AddParameterToSchema

SpecSchema == InitSchema /\ [][NextSchema]_vars

(***************************************************************************)
(* SpecParam: the parameters of one operation. A path item and one of its  *)
(* operations each declare parameters (without $ref); the parser makes the *)
(* ParsedPath's parameters of them and the converter the input schema.     *)
(***************************************************************************)
IntegerLeaf == Obj(<< <<"type", Str("integer")>> >>)

ParameterDeclarations ==
    [name : {"id", "q"}, in : {"query", "header"}, required : BOOLEAN,
     schema : {StringLeaf, IntegerLeaf}]

\* the lists of at most n declarations
RECURSIVE DeclarationLists(_)
DeclarationLists(n) ==
    IF n = 0 THEN {<<>>}
    ELSE DeclarationLists(n - 1)
         \cup {Append(l, d) : l \in DeclarationLists(n - 1), d \in ParameterDeclarations}

\* openapi-parser.ts lines 116-124: the ParsedParameter of a declaration
ParsedParameterOf(param) ==
    [name |-> param.name, in |-> param.in, required |-> param.required,
     schema |-> param.schema, description |-> Undefined]

\* openapi-parser.ts lines 90-128: the path-level declarations, then the
\* operation-level ones; a declaration without a name is left out
extractParameters(operation, pathItem) ==
    LET allParams == SelectSeq(pathItem.parameters \o operation.parameters,
                               LAMBDA param : param.name # "")
    IN [i \in 1..Len(allParams) |-> ParsedParameterOf(allParams[i])]

\* schema-converter.ts lines 17-19 and 32-44: inputSchema after
\* addParameterToSchema for each parameter in turn
RECURSIVE AddParametersToSchema(_, _)
AddParametersToSchema(inputSchema, parameters) ==
    IF parameters = <<>> THEN inputSchema
    ELSE AddParametersToSchema(
             [type |-> "object",
              properties |-> SetKey(inputSchema.properties, Head(parameters).name,
                                    ParameterProperty(Head(parameters))),
              required |-> IF Head(parameters).required
                           THEN Append(inputSchema.required, Head(parameters).name)
                           ELSE inputSchema.required],
             Tail(parameters))

NoParsedPath == [absent |-> "parsedPath"]

InitParam ==
    /\ IdleName
    /\ IdleHash
    /\ IdleReq
    /\ IdleMain
    /\ IdleAuth
    /\ IdleLoad
    /\ IdleConc
    /\ IdleCli
    /\ IdleSchema
    /\ IdleOverride
    /\ ppIn \in [pathItem : [parameters : DeclarationLists(MaxDeclared)],
                 operation : [parameters : DeclarationLists(MaxDeclared)]]
    /\ ppOut = NoParsedPath

\* extractPaths for the operation, then convertToMCPInputSchema for its ParsedPath
ExtractParameters ==
    /\ ppOut = NoParsedPath
    /\ \E parameters \in {extractParameters(ppIn.operation, ppIn.pathItem)} :
          ppOut' = [parameters |-> parameters,
                    inputSchema |->
                        AddParametersToSchema([type |-> "object", properties |-> Obj(<<>>),
                                               required |-> <<>>],
                                              parameters)]
    /\ UNCHANGED <<ppIn, nameVars, hashVars, reqVars, mainVars, authVars, loadVars,
                   concVars, cliVars, schemaVars, overrideVars>>

NextParam == ExtractParameters

SpecParam == InitParam /\ [][NextParam]_vars

(***************************************************************************)
(* SpecOverride: the tools compiled from the museum definition with a      *)
(* customization that has a list of authenticationOverrides and, possibly, *)
(* an alias for getMuseumHours.                                            *)
(***************************************************************************)
OverrideEndpoints == {"*", "hours", "getMuseumHours", "get*"}

OverrideCredentials ==
    {Obj(<< <<"username", Str("u")>>, <<"password", Str("p")>>, <<"token", Str("t")>> >>),
     Obj(<< <<"token", Str("t")>>, <<"key", Str("k")>> >>),
     Obj(<< <<"key", Str("k")>> >>),
     Obj(<< <<"username", Str("u")>>, <<"key", Str("k2")>> >>),
     Obj(<< <<"token", Str("")>>, <<"password", Str("p")>> >>)}

OverrideEntries ==
    {Obj(<< <<"endpoint", Str(e)>>, <<"credentials", c>> >>) :
        e \in OverrideEndpoints, c \in OverrideCredentials}

\* the lists of at most n entries
RECURSIVE OverrideLists(_)
OverrideLists(n) ==
    IF n = 0 THEN {<<>>}
    ELSE OverrideLists(n - 1)
         \cup {Append(l, o) : l \in OverrideLists(n - 1), o \in OverrideEntries}

OverrideCustomizations ==
    {MakeCustomization(a, Absent, o, FALSE) :
        a \in {Absent, Obj(<< <<"getMuseumHours", Str("hours")>> >>)},
        o \in {Absent} \cup {Arr(l) : l \in OverrideLists(MaxOverrides)}}

NoTools == [absent |-> "tools"]

InitOverride ==
    /\ IdleName
    /\ IdleHash
    /\ IdleReq
    /\ IdleMain
    /\ IdleAuth
    /\ IdleLoad
    /\ IdleConc
    /\ IdleCli
    /\ IdleSchema
    /\ IdleParam
    /\ ovIn \in OverrideCustomizations
    /\ ovOut = NoTools

\* generateEnrichedDefinition for the museum definition and the customization
GenerateTools ==
    /\ ovOut = NoTools
    /\ ovOut' = [tools |-> generateTools(MuseumApi, ovIn)]
    /\ UNCHANGED <<ovIn, nameVars, hashVars, reqVars, mainVars, authVars, loadVars,
                   concVars, cliVars, schemaVars, paramVars>>

NextOverride == GenerateTools

SpecOverride == InitOverride /\ [][NextOverride]_vars

(***************************************************************************)
(* Path templates as the claims read them                                  *)
(***************************************************************************)
\* a path template whose placeholders are closed, non-empty and alphanumeric
RECURSIVE WellFormedTemplate(_)
WellFormedTemplate(path) ==
    IF path = <<>> THEN TRUE
    ELSE IF Head(path) = "}" THEN FALSE
    ELSE IF Head(path) # "{" THEN WellFormedTemplate(Tail(path))
    ELSE LET j == MatchEndAt(path, 1)
         IN /\ j > 0
            /\ \A k \in 2..(j - 1) : IsAlnumChar(path[k])
            /\ WellFormedTemplate(SubSeq(path, j + 1, Len(path)))

\* the template with every placeholder taken out
RECURSIVE WithoutPlaceholders(_)
WithoutPlaceholders(path) ==
    IF path = <<>> THEN <<>>
    ELSE IF Head(path) = "{"
         THEN WithoutPlaceholders(SubSeq(path, MatchEndAt(path, 1) + 1, Len(path)))
         ELSE <<Head(path)>> \o WithoutPlaceholders(Tail(path))

\* the placeholder names of the template, in path order
RECURSIVE PlaceholderNames(_)
PlaceholderNames(path) ==
    IF path = <<>> THEN <<>>
    ELSE IF Head(path) = "{"
         THEN <<SubSeq(path, 2, MatchEndAt(path, 1) - 1)>>
              \o PlaceholderNames(SubSeq(path, MatchEndAt(path, 1) + 1, Len(path)))
         ELSE PlaceholderNames(Tail(path))

(***************************************************************************)
(* C2                                                                      *)
(***************************************************************************)
\* the content of a JSON value: objects as unordered key -> value maps
RECURSIVE Content(_)
Content(v) ==
    IF IsObj(v) THEN <<"obj", [k \in Range(Keys(v)) |-> Content(Get(v, k))]>>
    ELSE IF IsArr(v) THEN Arr([i \in 1..Len(v[2]) |-> Content(v[2][i])])
    ELSE v

\* C2: two inputs get the same combined hash if and only if their source hashes
\* are equal and their customizations have equal content (any alias, predefined
\* value or override endpoint/credential counts; the order of object keys does
\* not).
C2_HashIffContent ==
    hsOut # <<>> =>
        ((hsOut[1] = hsOut[2])
         <=> (/\ hsIn[1].parsed.hash = hsIn[2].parsed.hash
              /\ Content(hsIn[1].customization) = Content(hsIn[2].customization)))

(***************************************************************************)
(* C4, C5, C6, C7: the request built from a tool and the arguments         *)
(***************************************************************************)
\* the value the specification gives a field of the current call: the caller's
\* argument when the arguments contain the name, else the predefined value,
\* else none
ExpectedValue(f) ==
    IF f \in DOMAIN rqIn.args THEN rqIn.args[f]
    ELSE IF f \in DOMAIN rqIn.predefined THEN rqIn.predefined[f]
    ELSE Undefined

SuppliedFields == DOMAIN rqIn.args \cup DOMAIN rqIn.predefined

MappedTo(location) ==
    LET m == rqOut.tool.parameterMapping
    IN CASE location = "path" -> Range(m.pathParams)
         [] location = "query" -> Range(m.queryParams)
         [] location = "header" -> Range(m.headerParams)
         [] location = "cookie" -> Range(m.cookieParams)

MappedFields == UNION {MappedTo(l) : l \in Locations}

OutQuery == IF rqOut.request.params = Undefined THEN EmptyObject ELSE rqOut.request.params[2]

OutBody ==
    IF rqOut.request.body # Undefined /\ rqOut.request.body[1] = "rec"
    THEN rqOut.request.body[2] ELSE EmptyObject

HasJsonObjectBody ==
    /\ rqOut.tool.parameterMapping.bodySchema # NoSchema
    /\ rqOut.tool.parameterMapping.bodySchema.type = "object"

C5_WitnessNoBody ==
    /\ rqOut # NoOutput
    /\ HasJsonObjectBody
    /\ SuppliedFields # {}
    /\ rqOut.request.body = Undefined

\* C6: when every placeholder of the path template is a declared path parameter
\* and the merged arguments give each a value, no {name} placeholder is left in
\* the URL: every occurrence is replaced by the percent-encoded value.
C6_NoPlaceholderLeft ==
    (/\ rqOut # NoOutput
     /\ \A n \in Range(PlaceholderNames(rqOut.tool.endpoint.path)) :
           \E f \in MappedTo("path") : FieldSpelling[f] = n /\ ExpectedValue(f) # Undefined)
    => \A f \in MappedTo("path") : IndexOfSub(Placeholder(f), rqOut.request.url) = 0

\* the request locations the compiled mapping gives a field
LocationsOf(f) ==
    {l \in Locations : f \in MappedTo(l)}
    \cup (IF f \notin MappedFields THEN {"body"} ELSE {})

\* the request locations that carry the argument f of the current call
PlacementsOf(f) ==
    {l \in Locations \ {"path"} : l = "query" /\ f \in DOMAIN OutQuery}
    \cup {l \in {"header"} : f \in DOMAIN rqOut.request.headers}
    \cup {l \in {"cookie"} : f \in MappedTo("cookie") /\ "Cookie" \in DOMAIN rqOut.request.headers}
    \cup {l \in {"path"} : f \in MappedTo("path") /\ rqOut.request.url # rqOut.tool.endpoint.url}
    \cup {l \in {"body"} : f \in DOMAIN OutBody}

\* C7: every field of inputSchema.properties belongs to exactly one location
\* among path, query, header, cookie and body, whatever parameters and body
\* properties are declared, so no argument is placed in two request locations.
C7_OneLocationPerField ==
    rqOut # NoOutput =>
        \A f \in rqOut.tool.inputSchema.properties :
            /\ Cardinality(LocationsOf(f)) = 1
            /\ (ExpectedValue(f) # Undefined => Cardinality(PlacementsOf(f)) <= 1)

(***************************************************************************)
(* Claims about the service (Spec)                                         *)
(***************************************************************************)
IsExecuteToolCall == lastCall # NoCall /\ lastCall.kind = "executeTool"

\* the required names the arguments lack or bind to undefined or null
MissingRequired(tool, parameters) ==
    {r \in Range(tool.inputSchema.required) :
        r \notin DOMAIN parameters \/ parameters[r] \in {Undefined, Null}}

C11_ResponseReturnedInOneShape ==
    (IsExecuteToolCall /\ lastCall.response # NoResponse)
    => /\ lastCall.thrown = "none"
       /\ DOMAIN lastCall.result = {"status", "statusText", "headers", "data"}
       /\ lastCall.result.status = lastCall.response.status
       /\ lastCall.result.headers = lastCall.response.headers
       /\ lastCall.result.data = lastCall.response.data

\* the name is the name of no loaded tool
UnknownToolName(toolName) ==
    LET tools == LoadedTools(loadedDefinitions)
    IN \A i \in 1..Len(tools) : tools[i].name # toolName

\* what authentication makes of the request assembled for the call
AuthenticationOf(call) ==
    applyAuthentication(config, buildHttpRequest(call.tool, call.parameters), call.tool)

\* C12: executeTool looks the tool up, validates the required fields, assembles
\* the request, authenticates it and sends it, in this order: an unknown name
\* fails with missing_tool whatever the arguments, a missing required field
\* fails with parameter_validation whatever authentication would do, a call that
\* fails with missing_tool, parameter_validation or authentication_failed has
\* sent nothing, and what is sent is the authenticated request.
C12_FailuresBeforeSend ==
    IsExecuteToolCall =>
       /\ UnknownToolName(lastCall.toolName) =>
             lastCall.thrown = "missing_tool" /\ lastCall.tool = NoTool
       /\ lastCall.thrown \in {"missing_tool", "parameter_validation",
                               "authentication_failed"}
             => lastCall.sent = <<>> /\ lastCall.response = NoResponse
       /\ ~UnknownToolName(lastCall.toolName) =>
             /\ lastCall.tool # NoTool
             /\ MissingRequired(lastCall.tool, lastCall.parameters) # {}
                   => lastCall.thrown = "parameter_validation"
             /\ (/\ MissingRequired(lastCall.tool, lastCall.parameters) = {}
                 /\ ~AuthenticationOf(lastCall).ok)
                   => lastCall.thrown = "authentication_failed"
             /\ lastCall.sent # <<>> =>
                   /\ AuthenticationOf(lastCall).ok
                   /\ lastCall.sent[1].headers = AuthenticationOf(lastCall).request.headers

\* a call that lacks a required field and whose authentication would fail too
C12_Witness ==
    /\ IsExecuteToolCall
    /\ lastCall.tool # NoTool
    /\ MissingRequired(lastCall.tool, lastCall.parameters) # {}
    /\ ~AuthenticationOf(lastCall).ok
    /\ lastCall.thrown = "parameter_validation"
    /\ lastCall.sent = <<>>

\* a call with arguments that names no tool
C12_WitnessUnknown ==
    /\ IsExecuteToolCall
    /\ UnknownToolName(lastCall.toolName)
    /\ lastCall.parameters # EmptyObject
    /\ lastCall.thrown = "missing_tool"

\* a call that fails in authentication
C12_WitnessAuthentication ==
    /\ IsExecuteToolCall
    /\ lastCall.thrown = "authentication_failed"
    /\ lastCall.sent = <<>>

\* C21: when the request that was sent gets no response, executeTool fails with
\* network_error, returns no result, and that request is the only one the call
\* has sent.
C21_NoResponseFailsAfterOneSend ==
    (IsExecuteToolCall /\ lastCall.outcome = [failure |-> "no_response"])
    => /\ lastCall.thrown = "network_error"
       /\ lastCall.sent = <<AxiosConfig(lastCall.request)>>
       /\ lastCall.result = [absent |-> "result"]

\* a getEvent call whose request got no response
C21_Witness ==
    /\ IsExecuteToolCall
    /\ lastCall.toolName = "getEvent"
    /\ lastCall.parameters = [k \in {"eventId"} |-> Val_abc_123]
    /\ lastCall.outcome = [failure |-> "no_response"]
    /\ lastCall.thrown = "network_error"
    /\ Len(lastCall.sent) = 1
    /\ lastCall.sent[1].method = "GET"

\* C15: once the catalog is loaded, getAvailableTools and executeTool answer
\* from it: whatever changes on disk, a step other than reloadDefinitions leaves
\* the tools of the catalog as they were.
C15_CatalogKeptUntilReload ==
    [][(loadedDefinitions # EmptyObject /\ lastCall' # [kind |-> "reloadDefinitions"])
          => LoadedTools(loadedDefinitions') = LoadedTools(loadedDefinitions)]_vars

\* C3: with a cache directory and forceRegeneration off, the definition that
\* enrichDefinition returns is a cached one only while source and customization
\* are unchanged: what the latest call returned is the catalog compiled from the
\* source and customization it was given.
C3_CachedOnlyWhileUnchanged ==
    (/\ lastEnrich # NoEnrich
     /\ config.cacheDirectory /\ ~config.forceRegeneration)
    => LoadedTools(loadedDefinitions) =
          generateTools(lastEnrich.parsed, lastEnrich.customization)

\* C8: no two tools of an enriched definition have the same name.
C8_UniqueToolNames ==
    LET tools == LoadedTools(loadedDefinitions)
    IN \A i, j \in 1..Len(tools) : i # j => tools[i].name # tools[j].name

\* the tool compiled from an operation
IsToolOf(tool, op) ==
    tool.endpoint.path = op.path /\ tool.method = Join(toUpperCase(op.method))

\* C9: when the customization aliases the derived name N of an operation to A,
\* executeTool(A) resolves to that operation and executeTool(N) fails with
\* missing_tool unless another operation is itself named N.
C9_AliasReplacesDerivedName ==
    IsExecuteToolCall =>
        LET paths == lastEnrich.parsed.paths
            aliases == ToolAliases(lastEnrich.customization)
        IN \A i \in 1..Len(paths) :
              LET N == getOriginalToolName(paths[i])
              IN N \in DOMAIN aliases =>
                    /\ lastCall.toolName = aliases[N] =>
                          lastCall.tool # NoTool /\ IsToolOf(lastCall.tool, paths[i])
                    /\ (/\ lastCall.toolName = N
                        /\ aliases[N] # N
                        /\ \A j \in 1..Len(paths) :
                              j # i => generateToolName(aliases, paths[j]) # N)
                       => lastCall.thrown = "missing_tool"

(***************************************************************************)
(* Claims about authentication (SpecAuth)                                  *)
(***************************************************************************)
IsAuthCall(op) == auOut # NoOutput /\ auOut.op = op

\* C18: applyAuth with type oauth2 or openIdConnect does what it does with type
\* bearer: with a token it sets Authorization: Bearer <token>, without one it
\* fails with AuthenticationFailed.
C18_OAuthAsBearer ==
    (IsAuthCall("applyAuth") /\ auIn.type \in {"oauth2", "openIdConnect"})
    => /\ auOut.result = applyAuth(auOut.request, [type |-> "bearer",
                                                   credentials |-> auIn.credentials])
       /\ HasCredential(auIn.credentials, "token")
             => /\ auOut.result.ok
                /\ auOut.result.request.headers["Authorization"] =
                      "Bearer " \o auIn.credentials["token"]

\* the location applyApiKeyAuth puts the key at
ApiKeyLocation(credentials) ==
    IF "in" \in DOMAIN credentials THEN credentials["in"] ELSE "header"

\* the cases in which applyAuth is to fail
AuthMustFail(type, credentials) ==
    \/ type = "basic" /\ ("username" \notin DOMAIN credentials
                          \/ "password" \notin DOMAIN credentials)
    \/ type = "bearer" /\ "token" \notin DOMAIN credentials
    \/ type = "apiKey" /\ ("key" \notin DOMAIN credentials
                           \/ ApiKeyLocation(credentials) \notin {"header", "query", "cookie"})
    \/ type \notin {"basic", "bearer", "apiKey"}

\* C19: applyAuth fails with AuthenticationFailed for basic without username or
\* password, bearer without token, apiKey without key or with a location other
\* than header, query and cookie, and for every other type; the request then has
\* the headers and query parameters it had before.
C19_FailureLeavesRequestAlone ==
    (IsAuthCall("applyAuth") /\ AuthMustFail(auIn.type, auIn.credentials))
    => /\ ~auOut.result.ok
       /\ auOut.result.request = auOut.request

C19_Witness ==
    /\ IsAuthCall("applyAuth")
    /\ auIn.type = "apiKey"
    /\ "key" \in DOMAIN auIn.credentials
    /\ ApiKeyLocation(auIn.credentials) = "body"
    /\ "Cookie" \in DOMAIN auOut.request.headers
    /\ ~auOut.result.ok

\* the credentials the claim has applyAuthentication use for a tool with its
\* own authentication: the defaults, the tool's value winning on a shared key
MergedCredentials(defaults, own) ==
    [k \in DOMAIN defaults \cup DOMAIN own |->
        IF k \in DOMAIN own THEN own[k] ELSE defaults[k]]

\* what authentication with one type and credentials makes of a request
Authenticated(request, type, credentials) ==
    CASE type = "basic" /\ HasCredential(credentials, "username")
                        /\ HasCredential(credentials, "password") ->
            AuthOk([request EXCEPT !.headers =
                       Spread(request.headers,
                              "Authorization" :>
                                 ("Basic " \o Base64(credentials["username"] \o ":"
                                                     \o credentials["password"])))])
      [] type = "bearer" /\ HasCredential(credentials, "token") ->
            AuthOk([request EXCEPT !.headers =
                       Spread(request.headers,
                              "Authorization" :> ("Bearer " \o credentials["token"]))])
      [] type = "apiKey" -> applyApiKeyAuth(request, credentials)
      [] OTHER -> AuthFailed(request)

\* C20: for a tool with its own authentication applyAuthentication authenticates
\* with the tool's type and the default credentials merged under the tool's,
\* the tool's value winning; for a tool without one it authenticates with the
\* default credentials as basic when they hold username and password, else as
\* bearer when they hold a token, else as apiKey when they hold a key, and hands
\* the request on as it is when they hold none of these.
C20_ToolAuthenticationThenDefaults ==
    IsAuthCall("applyAuthentication") =>
       IF auOut.tool.authentication # NoAuthentication
       THEN auOut.result =
               Authenticated(auOut.request, auOut.tool.authentication.type,
                             MergedCredentials(auIn.defaults,
                                               auOut.tool.authentication.credentials))
       ELSE IF HasCredential(auIn.defaults, "username")
               /\ HasCredential(auIn.defaults, "password")
       THEN auOut.result = Authenticated(auOut.request, "basic", auIn.defaults)
       ELSE IF HasCredential(auIn.defaults, "token")
       THEN auOut.result = Authenticated(auOut.request, "bearer", auIn.defaults)
       ELSE IF HasCredential(auIn.defaults, "key")
       THEN auOut.result = Authenticated(auOut.request, "apiKey", auIn.defaults)
       ELSE auOut.result = AuthOk(auOut.request)

\* a tool with its own key, sent with the name X-Key it gives and not touched
\* by the token and the key of the defaults
C20_Witness ==
    /\ IsAuthCall("applyAuthentication")
    /\ auOut.tool.authentication # NoAuthentication
    /\ auOut.tool.authentication.type = "apiKey"
    /\ "name" \in DOMAIN auOut.tool.authentication.credentials
    /\ HasCredential(auIn.defaults, "key")
    /\ HasCredential(auIn.defaults, "token")
    /\ auOut.result.ok
    /\ auOut.result.request.headers["X-Key"] = "t-key"
    /\ "Authorization" \notin DOMAIN auOut.result.request.headers

\* a tool without authentication and defaults with a token and a key only
C20_WitnessInferred ==
    /\ IsAuthCall("applyAuthentication")
    /\ auOut.tool.authentication = NoAuthentication
    /\ DOMAIN auIn.defaults = {"username", "token", "key"}
    /\ auOut.result.ok
    /\ auOut.result.request.headers["Authorization"] = "Bearer d-token"

(***************************************************************************)
(* Claims about loading and the cache (SpecLoad)                           *)
(***************************************************************************)
IsLoadCall == ldLast # NoLoad

\* a definition file that can be read and parsed and whose customization, if
\* there is one, can be read and parsed too
ValidDefinitionFile(files, name) ==
    /\ name \in DOMAIN files
    /\ name.ext \in {"yaml", "yml", "json"} /\ ~name.custom
    /\ files[name].file = "ok"
    /\ LET sidecar == FileName(name.stem, TRUE, "yaml")
       IN sidecar \in DOMAIN files => files[sidecar].file = "ok"

\* the tools a valid definition file defines
DefinedTools(files, name) ==
    LET sidecar == FileName(name.stem, TRUE, "yaml")
        tools == generateTools(files[name].content,
                               IF sidecar \in DOMAIN files THEN files[sidecar].content
                               ELSE Obj(<<>>))
    IN [i \in 1..Len(tools) |-> MCPToolOf(tools[i])]

RECURSIVE ToolsOfValidFiles(_, _)
ToolsOfValidFiles(files, names) ==
    IF names = <<>> THEN <<>>
    ELSE (IF ValidDefinitionFile(files, Head(names)) THEN DefinedTools(files, Head(names))
          ELSE <<>>) \o ToolsOfValidFiles(files, Tail(names))

\* C13: a load of a readable directory does not throw whatever files cannot be
\* read or parsed, customizations included, and getAvailableTools returns the
\* tools of every valid definition file, and no others.
C13_BadFileIsSkipped ==
    (IsLoadCall /\ ldDir.readable)
    => /\ ~ldLast.thrown
       /\ ldLast.kind = "getAvailableTools"
             => ldLast.tools = ToolsOfValidFiles(ldDir.files, DirectoryListing)

\* museum-api.yaml is good, its customization does not parse, events.json is
\* good: the tools are those of events.json
C13_Witness ==
    /\ IsLoadCall
    /\ ldLast.kind = "getAvailableTools"
    /\ ldDir.readable
    /\ ldDir.files[MuseumFileName].file = "ok"
    /\ FileName("museum-api", TRUE, "yaml") \in DOMAIN ldDir.files
    /\ ldDir.files[FileName("museum-api", TRUE, "yaml")] = Invalid
    /\ ValidDefinitionFile(ldDir.files, EventsFileName)
    /\ ~ldLast.thrown
    /\ Len(ldLast.tools) = 1
    /\ ldLast.tools[1].name = "createEvent"

\* events.json cannot be read, museum-api.yaml and its customization are good
C13_WitnessUnreadable ==
    /\ IsLoadCall
    /\ ldLast.kind = "getAvailableTools"
    /\ ldDir.readable
    /\ ldDir.files[EventsFileName] = Unreadable
    /\ ValidDefinitionFile(ldDir.files, MuseumFileName)
    /\ FileName("museum-api", TRUE, "yaml") \in DOMAIN ldDir.files
    /\ Len(ldLast.tools) = 1
    /\ ldLast.tools[1].name = "list-museum-hours"

\* the cache directory works and nobody touched its files
CacheIntact == ldCache.disk = "ok" /\ ldCalls.cacheEdits = 0

\* C16: with a cache directory, from the second load on every definition in
\* loadedDefinitions is the one the file's first load stored, generatedAt
\* included, and the parser was invoked once for the file.
C16_SecondLoadFromCacheWithoutParsing ==
    (/\ IsLoadCall
     /\ ldConfig.cacheDirectory
     /\ CacheIntact
     /\ ldCalls.loads >= 2)
    => \A i \in 1..Len(ldService.loaded) :
          /\ ldService.loaded[i].value = ldFirst[ldService.loaded[i].key]
          /\ ldService.parses[ldService.loaded[i].key] = 1

\* the enrichDefinition calls of the latest load
EnrichedFiles == IF IsLoadCall THEN DOMAIN ldService.enriches ELSE {}

\* the hash of the pair an enrichDefinition call was given
HashOfCall(call) == generateCombinedHash(call.parsed, call.customization)

\* the cache file of the call's hash was there and could not be read, was not
\* JSON or was not an enriched definition
CacheEntryFails(call) ==
    /\ HashOfCall(call) \in DOMAIN call.cache.files
    /\ \/ call.cache.files[HashOfCall(call)].file # "ok"
       \/ "metadata" \notin DOMAIN call.cache.files[HashOfCall(call)].content

\* the definition compiled at the time of the call
FreshlyCompiled(name, call) ==
    [hash |-> HashOfCall(call),
     serverUrl |-> FirstServer(call.parsed),
     tools |-> generateTools(call.parsed, call.customization),
     metadata |-> [sourceFile |-> name, generatedAt |-> call.now]]

\* C17: with a cache directory, an enrichDefinition call whose cache file cannot
\* be read, parsed or validated, or whose cache directory cannot be written,
\* returns the definition compiled at the call; and no valid definition file
\* fails to load whatever the state of the cache directory.
C17_CacheFailuresAreNotFatal ==
    (IsLoadCall /\ ldConfig.cacheDirectory /\ ldDir.readable)
    => /\ \A n \in EnrichedFiles :
             /\ (CacheEntryFails(ldService.enriches[n])
                 \/ ldService.enriches[n].cache.disk # "ok"
                 \/ ~ldService.enriches[n].returned.fromCache)
                   => /\ ~ldService.enriches[n].returned.fromCache
                      /\ ldService.enriches[n].returned.enriched =
                            FreshlyCompiled(n, ldService.enriches[n])
             /\ ldService.loaded[MapGet(ldService.loaded, n)].value =
                   ldService.enriches[n].returned.enriched
       /\ \A n \in DOMAIN ldDir.files :
             ValidDefinitionFile(ldDir.files, n) => n \in EnrichedFiles

\* forceRegeneration off, the cache file of museum-api.yaml is there and is not
\* an enriched definition: the call returns the definition compiled now
C17_Witness ==
    /\ IsLoadCall
    /\ ldConfig.cacheDirectory /\ ~ldConfig.forceRegeneration
    /\ MuseumFileName \in EnrichedFiles
    /\ CacheEntryFails(ldService.enriches[MuseumFileName])
    /\ ldService.enriches[MuseumFileName].cache.files[
          HashOfCall(ldService.enriches[MuseumFileName])] = FileOf(NoMetadataValue)
    /\ ldService.enriches[MuseumFileName].returned.enriched.metadata.generatedAt = ldClock
    /\ ldClock > 0

\* the cache directory cannot be written
C17_WitnessReadOnly ==
    /\ IsLoadCall
    /\ ldConfig.cacheDirectory
    /\ ldCache.disk = "readonly"
    /\ EventsFileName \in EnrichedFiles
    /\ ldCalls.loads = 2
    /\ ldService.enriches[EventsFileName].returned.enriched.tools # <<>>
    /\ ldCache.files = EmptyObject

(***************************************************************************)
(* Claims about overlapping calls (SpecConc)                               *)
(***************************************************************************)
\* the names of the tools the valid definition files of the directory define
ToolNamesOfDirectory ==
    LET tools == ToolsOfValidFiles(ConcFiles, DirectoryListing)
    IN {tools[i].name : i \in 1..Len(tools)}

\* C14: however getAvailableTools, executeTool and reloadDefinitions calls
\* overlap over an unchanging directory, an executeTool that names a tool of a
\* valid definition file does not end with missing_tool and a
\* getAvailableTools returns the tools of every valid definition file.
C14_OverlappingCallsSeeEveryTool ==
    \A c \in Callers :
       ccCallers[c].pc = "done" =>
          /\ (/\ ccCallers[c].op = "executeTool"
              /\ ccCallers[c].toolName \in ToolNamesOfDirectory)
                => ccCallers[c].result = <<"found">>
          /\ ccCallers[c].op = "getAvailableTools"
                => ccCallers[c].result = ToolsOfValidFiles(ConcFiles, DirectoryListing)

(***************************************************************************)
(* C10                                                                     *)
(***************************************************************************)
\* the static part as the naming convention words it: slashes and every other
\* non-alphanumeric character collapsed to single dashes, trimmed, lowercased
DocumentedStaticPart(path) ==
    LET plain == WithoutPlaceholders(path)
        dashed == [i \in 1..Len(plain) |-> IF IsAlnumChar(plain[i]) THEN plain[i] ELSE "-"]
        single == CollapseRuns(dashed, "-", "-")
    IN toLowerCase(TrimRight(TrimLeft(single, "-"), "-"))

RECURSIVE DocumentedSuffix(_)
DocumentedSuffix(names) ==
    IF names = <<>> THEN <<>>
    ELSE <<"-", "b", "y", "-">> \o Head(names) \o DocumentedSuffix(Tail(names))

DocumentedToolName(op) ==
    Join(toLowerCase(op.method) \o <<"-">> \o DocumentedStaticPart(op.path)
         \o DocumentedSuffix(PlaceholderNames(op.path)))

\* C10: for an operation with no operationId and no matching alias the name is
\* the lowercase method, a dash, the static part of the path with its slashes and
\* other non-alphanumeric characters collapsed to single dashes, and a
\* -by-<paramName> suffix per path parameter with paramName spelled as in the
\* template (GET /special-events/{eventId} gives get-special-events-by-eventId).
C10_NameAsDocumented ==
    (/\ nmName # NoResult
     /\ WellFormedTemplate(nmOp.path)
     /\ DocumentedStaticPart(nmOp.path) # <<>>)
    => nmName = DocumentedToolName(nmOp)

\* the README's own example, as the code computes it
C10_ReadmeExample ==
    (nmName # NoResult /\ nmOp.path = SpecialEventsPath /\ nmOp.method = <<"g","e","t">>)
    => nmName = "get-special-events-by-eventId"

(***************************************************************************)
(* Claims about the command line (SpecCli)                                 *)
(***************************************************************************)
\* the command line asks for no cache: --no-cache is its first argument and no
\* --cache-dir is given
StartedWithNoCache ==
    /\ clArgs # <<>>
    /\ clArgs[1] = "--no-cache"
    /\ \A i \in 1..Len(clArgs) : clArgs[i] # "--cache-dir"
    /\ clServer # NoServer

\* the latest load took a definition from the cache directory
CacheWasRead ==
    \E n \in DOMAIN clLast.enriches : clLast.enriches[n].returned.fromCache

\* C22: when the command line is started with --no-cache, the service of the
\* server it launches has caching disabled: its config has no cache directory,
\* no call takes a definition from a cache directory and no call writes a file
\* into one.
C22_NoCacheDisablesCaching ==
    StartedWithNoCache
    => /\ ~EnricherConfig(clServer.config).cacheDirectory
       /\ ~CacheWasRead
       /\ \A d \in CacheDirectories : clDisk[d] = EmptyObject

(***************************************************************************)
(* Claims about tools of the same name (Spec)                              *)
(***************************************************************************)
\* the positions of the tools of that name among the loaded tools
PositionsOfName(tools, toolName) == {i \in 1..Len(tools) : tools[i].name = toolName}

\* the largest position of a non-empty set of positions
LastPosition(positions) == CHOOSE i \in positions : \A j \in positions : j <= i

\* C23: when two operations of one definition produce the same tool name,
\* executeTool called with that name executes the operation that comes last in
\* the definition's iteration order.
C23_LastOperationOfNameWins ==
    IsExecuteToolCall =>
        LET tools == LoadedTools(loadedDefinitions)
            positions == PositionsOfName(tools, lastCall.toolName)
        IN Cardinality(positions) >= 2
              => lastCall.tool = tools[LastPosition(positions)]

(***************************************************************************)
(* Claims about the input request of applyAuth (SpecAuth)                  *)
(***************************************************************************)
\* C24: applyAuth returns a new request and leaves its input request unchanged:
\* after the call the input request has the headers and the query parameters
\* it had before, for every authentication type and also when the call fails.
C24_InputRequestUnchanged ==
    IsAuthCall("applyAuth")
    => /\ auOut.input.headers = auOut.request.headers
       /\ auOut.input.params = auOut.request.params

(***************************************************************************)
(* Claims about the schema translation (SpecSchema)                        *)
(***************************************************************************)
\* the keywords convertOpenAPISchemaToJSONSchema names
InterpretedKeywords ==
    {"type", "format", "description", "example", "default", "enum", "pattern",
     "minimum", "maximum", "minLength", "maxLength", "minItems", "maxItems", "items",
     "properties", "required", "additionalProperties", "allOf", "oneOf", "anyOf"}

\* every keyword of the source that the converter does not interpret is in the
\* translated schema with the same value, here and in every translated
\* sub-schema
RECURSIVE KeepsKeywords(_, _)
KeepsKeywords(source, translated) ==
    \A k \in Range(Keys(source)) :
        IF k \notin InterpretedKeywords
        THEN HasKey(translated, k) /\ Get(translated, k) = Get(source, k)
        ELSE IF ~HasKey(translated, k) THEN TRUE
        ELSE IF k = "items" \/ (k = "additionalProperties" /\ IsObj(Get(source, k)))
        THEN KeepsKeywords(Get(source, k), Get(translated, k))
        ELSE IF k = "properties"
        THEN \A p \in Range(Keys(Get(source, k))) :
                KeepsKeywords(Get(Get(source, k), p), Get(Get(translated, k), p))
        ELSE IF k \in {"allOf", "oneOf", "anyOf"}
        THEN \A i \in 1..Len(Get(source, k)[2]) :
                KeepsKeywords(Get(source, k)[2][i], Get(translated, k)[2][i])
        ELSE TRUE

\* C25: schema translation keeps every keyword of the source schema: a keyword
\* the converter does not interpret (nullable, title, uniqueItems) appears with
\* the same value in the translated schema, at every nesting level.
C25_KeywordsPassThrough ==
    scOut # NoProperty => KeepsKeywords(scIn.schema, scOut)

(***************************************************************************)
(* Claims about path-level and operation-level parameters (SpecParam)      *)
(***************************************************************************)
SameParameter(a, b) == a.name = b.name /\ a.in = b.in

\* C26: when a path item and one of its operations both declare a parameter
\* with the same name and location, the ParsedPath of the operation contains
\* that parameter exactly once, with the required flag and the schema of the
\* operation-level declaration; when that declaration is optional, the name is
\* not among the required fields of the tool's input schema.
C26_OperationLevelParameterWins ==
    ppOut # NoParsedPath =>
        \A i \in 1..Len(ppIn.pathItem.parameters),
           j \in 1..Len(ppIn.operation.parameters) :
            LET declared == ppIn.operation.parameters[j]
                parsed == {k \in 1..Len(ppOut.parameters) :
                              SameParameter(ppOut.parameters[k], declared)}
            IN SameParameter(ppIn.pathItem.parameters[i], declared)
               => /\ Cardinality(parsed) = 1
                  /\ \A k \in parsed :
                        /\ ppOut.parameters[k].required = declared.required
                        /\ ppOut.parameters[k].schema = declared.schema
                  /\ ~declared.required
                        => declared.name \notin Range(ppOut.inputSchema.required)

(***************************************************************************)
(* Claims about authenticationOverrides (SpecOverride)                     *)
(***************************************************************************)
\* the entries of authenticationOverrides, none when the customization has no list
OverridesOf(customization) ==
    IF HasKey(customization, "authenticationOverrides")
    THEN Get(customization, "authenticationOverrides")[2] ELSE <<>>

\* the positions of the entries whose endpoint is * or the name
ApplicableOverrides(overrides, toolName) ==
    {i \in 1..Len(overrides) :
        Get(overrides[i], "endpoint")[2] = "*" \/ Get(overrides[i], "endpoint")[2] = toolName}

FirstPosition(positions) == CHOOSE i \in positions : \A j \in positions : i <= j

\* the credentials hold a value for the key
Holds(credentials, k) == HasKey(credentials, k) /\ Get(credentials, k)[2] # ""

\* the type the claim gives to credentials of this shape, "" when it gives none
TypeByShape(credentials) ==
    IF Holds(credentials, "username") /\ Holds(credentials, "password") THEN "basic"
    ELSE IF Holds(credentials, "token") THEN "bearer"
    ELSE IF Holds(credentials, "key") THEN "apiKey"
    ELSE ""

C27_WitnessNoMatch ==
    /\ ovOut # NoTools
    /\ Len(OverridesOf(ovIn)) = 2
    /\ Get(OverridesOf(ovIn)[1], "endpoint") = Str("getMuseumHours")
    /\ Get(OverridesOf(ovIn)[2], "endpoint") = Str("get*")
    /\ \E i \in 1..Len(ovOut.tools) :
          /\ ovOut.tools[i].name = "hours"
          /\ ovOut.tools[i].authentication = NoAuthentication

(***************************************************************************)
(* Claims about the body input field (SpecBody)                            *)
(***************************************************************************)
\* the tool exposes the request body as the single input field body
BodyIsSingleField(tool) ==
    /\ "body" \in tool.inputSchema.properties
    /\ \A k \in tool.inputSchema.properties :
          k = "body" \/ k \in Range(tool.parameterMapping.pathParams)

\* C28: for a tool whose request body is exposed as the single body input
\* field, the outbound request body is exactly the value the caller passed as
\* body, not an object that wraps it under a body key.
C28_BodyFieldSentVerbatim ==
    (/\ rqOut # NoOutput
     /\ BodyIsSingleField(rqOut.tool)
     /\ "body" \in DOMAIN rqIn.args
     /\ Truthy(rqIn.args["body"]))
    => rqOut.request.body = rqIn.args["body"]

(***************************************************************************)
(* Claims about required fields with a predefined value (SpecPredefined)   *)
(***************************************************************************)
\* the required names the caller's arguments lack although the tool has a
\* predefined value for them
MissingButPredefined(tool, parameters) ==
    {r \in MissingRequired(tool, parameters) :
        r \in DOMAIN tool.predefinedParams /\ Truthy(tool.predefinedParams[r])}

FilesThatLoad(dir) ==
    IF ~dir.readable THEN {}
    ELSE {name \in DOMAIN dir.files : ValidDefinitionFile(dir.files, name)}

\* the step is a call that loads
IsLoadStep == ldCalls'.loads = ldCalls.loads + 1

\* every tool of the definition is among the listed tools and is found by name
ListedAndExecutable(loaded, enriched, listed) ==
    \A i \in 1..Len(enriched.tools) :
        /\ MCPToolOf(enriched.tools[i]) \in Range(listed)
        /\ FindInMap(loaded, enriched.tools[i].name) = "found"

\* what a call other than reloadDefinitions does to the catalog: every
\* definition stays, one whose file does not load now stays as it was, and with
\* a readable directory the tools of each are listed and found
CatalogGrows ==
    /\ MapKeys(ldService.loaded) \subseteq MapKeys(ldService'.loaded)
    /\ \A name \in MapKeys(ldService.loaded) :
          /\ name \notin FilesThatLoad(ldDir)
                => ldService'.loaded[MapGet(ldService'.loaded, name)] =
                      ldService.loaded[MapGet(ldService.loaded, name)]
          /\ ldDir.readable
                => /\ ~ldLast'.thrown
                   /\ ListedAndExecutable(
                          ldService'.loaded,
                          ldService'.loaded[MapGet(ldService'.loaded, name)].value,
                          ldLast'.tools)

\* C30: between two reloadDefinitions calls the set of loaded definitions only
\* grows: a definition that once loaded stays in the catalog, with its tools
\* listed and executable, even after its file is deleted or becomes
\* unparseable; after reloadDefinitions the loaded definitions are exactly the
\* files that load successfully at that time.
C30_CatalogGrowsUntilReload ==
    [][IF ~IsLoadStep THEN ldService'.loaded = ldService.loaded
       ELSE IF ldLast'.kind = "reloadDefinitions"
       THEN MapKeys(ldService'.loaded) = FilesThatLoad(ldDir)
       ELSE CatalogGrows]_vars

\* the latest getAvailableTools did not load museum-api.yaml, which is deleted
\* or does not parse, and the definition of an earlier load is in the catalog
\* with its tool listed
C30_Witness ==
    /\ IsLoadCall
    /\ ldLast.kind = "getAvailableTools"
    /\ ldDir.readable
    /\ ~ValidDefinitionFile(ldDir.files, MuseumFileName)
    /\ MuseumFileName \notin DOMAIN ldService.enriches
    /\ MuseumFileName \in MapKeys(ldService.loaded)
    /\ \E i \in 1..Len(ldLast.tools) : ldLast.tools[i].name = "getMuseumHours"

====
